---------------------------- MODULE Spec2Model ----------------------------
(***************************************************************************)
(* A model of the pdf-mcp-client package of pdf-text-mcp:                  *)
(*   - PDFUtils (utils.py): path validation and base64 encoding,           *)
(*   - MCPProtocol (protocol.py): the JSON-RPC envelope builders,          *)
(*   - MCPHTTPClient (http_client.py): the tool-call client, its request   *)
(*     id counter, health_check and close.                                 *)
(* Python values are modelled by what the interpreter does with them: a    *)
(* str is a sequence of tokens, JSON text is parsed by a recursive         *)
(* descent parser, base64 is computed on the bytes, an exception is a      *)
(* record naming its class.                                                *)
(***************************************************************************)
EXTENDS Integers, Sequences, FiniteSets, TLC

----------------------------------------------------------------------------
(* Python str and JSON text.                                               *)
(* A str is a sequence of tokens.  A token is punctuation (P), a bare word *)
(* (W: a run of characters without JSON structure of its own), an integer  *)
(* literal (N) or a quoted string (Q) whose content is again a str.        *)

P(x) == [t |-> "p", s |-> x, c |-> <<>>, i |-> 0]
W(x) == [t |-> "w", s |-> x, c |-> <<>>, i |-> 0]
N(int) == [t |-> "n", s |-> "", c |-> <<>>, i |-> int]
Q(content) == [t |-> "q", s |-> "", c |-> content, i |-> 0]

\* The str whose characters are the one word x.
PyStr(x) == <<W(x)>>

\* Bare words json.loads accepts as literals.
LiteralLexemes == {"null", "true", "false"}

(* Python values (the result of json.loads and what the client returns):   *)
(* one record shape for all of them, k naming the kind.                    *)
Str(content) == [k |-> "str", s |-> content, i |-> 0, m |-> <<>>]
\* An int.
Num(int) == [k |-> "num", s |-> <<>>, i |-> int, m |-> <<>>]
\* None ("null"), True ("true"), False ("false").
Lit(lexeme) == [k |-> lexeme, s |-> <<>>, i |-> 0, m |-> <<>>]
\* A dict: its members in insertion order, keys unique.
Obj(members) == [k |-> "obj", s |-> <<>>, i |-> 0, m |-> members]
\* A list.
Arr(members) == [k |-> "arr", s |-> <<>>, i |-> 0, m |-> members]
Member(key, val) == [key |-> key, val |-> val]
Elem(val) == [key |-> <<>>, val |-> val]

None == Lit("null")
PyTrue == Lit("true")
PyFalse == Lit("false")
EmptyDict == Obj(<<>>)

\* dict[key] = val: a key already present keeps its place and takes val.
DictPut(members, key, val) ==
  IF \E i \in 1..Len(members) : members[i].key = key
  THEN [i \in 1..Len(members) |->
          IF members[i].key = key THEN Member(key, val) ELSE members[i]]
  ELSE Append(members, Member(key, val))

\* key in d
HasKey(d, key) == \E i \in 1..Len(d.m) : d.m[i].key = key

\* d[key], for a key of d
Lookup(d, key) ==
  d.m[CHOOSE i \in 1..Len(d.m) : d.m[i].key = key].val

\* d.get(key, default)
DictGet(d, key, default) == IF HasKey(d, key) THEN Lookup(d, key) ELSE default

ParseFail == [ok |-> FALSE, val |-> None, next |-> 0]
ParseOk(v, i) == [ok |-> TRUE, val |-> v, next |-> i]

IsP(toks, i, x) == i <= Len(toks) /\ toks[i].t = "p" /\ toks[i].s = x

RECURSIVE parse_value(_, _), parse_pairs(_, _, _), parse_elements(_, _, _)

\* json.loads: the value starting at token i of toks, and where it ends.
parse_value(toks, i) ==
  IF i > Len(toks) THEN ParseFail
  ELSE LET tok == toks[i] IN
    CASE tok.t = "q" -> ParseOk(Str(tok.c), i + 1)
      [] tok.t = "n" -> ParseOk(Num(tok.i), i + 1)
      [] tok.t = "w" ->
           IF tok.s \in LiteralLexemes THEN ParseOk(Lit(tok.s), i + 1)
           ELSE ParseFail
      [] tok.t = "p" /\ tok.s = "{" ->
           IF IsP(toks, i + 1, "}") THEN ParseOk(EmptyDict, i + 2)
           ELSE parse_pairs(toks, i + 1, <<>>)
      [] tok.t = "p" /\ tok.s = "[" ->
           IF IsP(toks, i + 1, "]") THEN ParseOk(Arr(<<>>), i + 2)
           ELSE parse_elements(toks, i + 1, <<>>)
      [] OTHER -> ParseFail

\* The members of an object from token i on: "key" : value , ... }
parse_pairs(toks, i, acc) ==
  IF ~(i <= Len(toks) /\ toks[i].t = "q" /\ IsP(toks, i + 1, ":"))
  THEN ParseFail
  ELSE LET r == parse_value(toks, i + 2) IN
    IF ~r.ok THEN ParseFail
    ELSE LET members == DictPut(acc, toks[i].c, r.val) IN
      IF IsP(toks, r.next, ",") THEN parse_pairs(toks, r.next + 1, members)
      ELSE IF IsP(toks, r.next, "}") THEN ParseOk(Obj(members), r.next + 1)
      ELSE ParseFail

\* The elements of an array from token i on: value , ... ]
parse_elements(toks, i, acc) ==
  LET r == parse_value(toks, i) IN
    IF ~r.ok THEN ParseFail
    ELSE LET members == Append(acc, Elem(r.val)) IN
      IF IsP(toks, r.next, ",") THEN parse_elements(toks, r.next + 1, members)
      ELSE IF IsP(toks, r.next, "]") THEN ParseOk(Arr(members), r.next + 1)
      ELSE ParseFail

\* json.loads(text): ok is FALSE where Python raises json.JSONDecodeError
\* (no value, or extra data after the value).
json_loads(toks) ==
  LET r == parse_value(toks, 1) IN
    IF r.ok /\ r.next = Len(toks) + 1 THEN [ok |-> TRUE, val |-> r.val]
    ELSE [ok |-> FALSE, val |-> None]

RECURSIVE json_dumps(_), dumps_members(_, _, _)

\* json.dumps(value): the JSON text of a value (what httpx sends for json=,
\* and what a server writes).
json_dumps(v) ==
  CASE v.k = "str" -> <<Q(v.s)>>
    [] v.k = "num" -> <<N(v.i)>>
    [] v.k = "obj" -> <<P("{")>> \o dumps_members(v.m, 1, TRUE) \o <<P("}")>>
    [] v.k = "arr" -> <<P("[")>> \o dumps_members(v.m, 1, FALSE) \o <<P("]")>>
    [] OTHER -> <<W(v.k)>>

dumps_members(m, i, keyed) ==
  IF i > Len(m) THEN <<>>
  ELSE (IF i > 1 THEN <<P(",")>> ELSE <<>>)
       \o (IF keyed THEN <<Q(m[i].key), P(":")>> ELSE <<>>)
       \o json_dumps(m[i].val)
       \o dumps_members(m, i + 1, keyed)

\* str(value) inside an f-string.
Format(v) ==
  CASE v.k = "str" -> v.s
    [] v.k = "num" -> <<N(v.i)>>
    [] v.k = "null" -> PyStr("None")
    [] v.k = "true" -> PyStr("True")
    [] v.k = "false" -> PyStr("False")
    [] OTHER -> json_dumps(v)

\* needle in haystack, for two strs
Contains(haystack, needle) ==
  \E i \in 0..(Len(haystack) - Len(needle)) :
    \A j \in 1..Len(needle) : haystack[i + j] = needle[j]

----------------------------------------------------------------------------
(* Characters, bytes and base64.                                           *)

UpperCase ==
  <<"A", "B", "C", "D", "E", "F", "G", "H", "I", "J", "K", "L", "M",
    "N", "O", "P", "Q", "R", "S", "T", "U", "V", "W", "X", "Y", "Z">>
LowerCase ==
  <<"a", "b", "c", "d", "e", "f", "g", "h", "i", "j", "k", "l", "m",
    "n", "o", "p", "q", "r", "s", "t", "u", "v", "w", "x", "y", "z">>
Digits == <<"0", "1", "2", "3", "4", "5", "6", "7", "8", "9">>

\* str.lower() on one character.
LowerChar(ch) ==
  IF \E i \in 1..Len(UpperCase) : UpperCase[i] = ch
  THEN LowerCase[CHOOSE i \in 1..Len(UpperCase) : UpperCase[i] = ch]
  ELSE ch

\* str.lower() on a sequence of characters.
Lower(chars) == [i \in 1..Len(chars) |-> LowerChar(chars[i])]

\* The ASCII code base64 writes for a 6-bit group.
B64Code(sextet) ==
  IF sextet < 26 THEN 65 + sextet
  ELSE IF sextet < 52 THEN 97 + (sextet - 26)
  ELSE IF sextet < 62 THEN 48 + (sextet - 52)
  ELSE IF sextet = 62 THEN 43
  ELSE 47

\* The ASCII code of the padding character "=".
B64Pad == 61

RECURSIVE b64encode(_)
\* base64.b64encode(bs): the ASCII codes of the standard encoding of the
\* bytes bs, three bytes to four codes, the tail padded with "=".
b64encode(bs) ==
  IF Len(bs) = 0 THEN <<>>
  ELSE IF Len(bs) = 1 THEN
    <<B64Code(bs[1] \div 4), B64Code((bs[1] % 4) * 16), B64Pad, B64Pad>>
  ELSE IF Len(bs) = 2 THEN
    <<B64Code(bs[1] \div 4),
      B64Code((bs[1] % 4) * 16 + bs[2] \div 16),
      B64Code((bs[2] % 16) * 4),
      B64Pad>>
  ELSE
    <<B64Code(bs[1] \div 4),
      B64Code((bs[1] % 4) * 16 + bs[2] \div 16),
      B64Code((bs[2] % 16) * 4 + bs[3] \div 64),
      B64Code(bs[3] % 64)>>
    \o b64encode(SubSeq(bs, 4, Len(bs)))

\* The character of an ASCII code (the codes base64 writes).
AsciiChar(code) ==
  IF code \in 65..90 THEN UpperCase[code - 64]
  ELSE IF code \in 97..122 THEN LowerCase[code - 96]
  ELSE IF code \in 48..57 THEN Digits[code - 47]
  ELSE IF code = 43 THEN "+"
  ELSE IF code = 47 THEN "/"
  ELSE "="

\* bytes.decode("ascii"): the str of a sequence of ASCII codes, one word
\* token per character.
ascii_decode(codes) == [i \in 1..Len(codes) |-> W(AsciiChar(codes[i]))]

\* The 6-bit group a base64 character stands for.
B64Value(ch) ==
  IF \E i \in 1..26 : UpperCase[i] = ch
  THEN (CHOOSE i \in 1..26 : UpperCase[i] = ch) - 1
  ELSE IF \E i \in 1..26 : LowerCase[i] = ch
  THEN 26 + (CHOOSE i \in 1..26 : LowerCase[i] = ch) - 1
  ELSE IF \E i \in 1..10 : Digits[i] = ch
  THEN 52 + (CHOOSE i \in 1..10 : Digits[i] = ch) - 1
  ELSE IF ch = "+" THEN 62
  ELSE 63

RECURSIVE b64decode(_)
\* base64.b64decode(text), for a padded text: four characters to three
\* bytes, fewer where the group ends in "=".
b64decode(text) ==
  IF Len(text) < 4 THEN <<>>
  ELSE LET a == B64Value(text[1].s)
           b == B64Value(text[2].s)
           rest == b64decode(SubSeq(text, 5, Len(text)))
       IN IF text[3].s = "=" THEN <<a * 4 + b \div 16>> \o rest
          ELSE LET c == B64Value(text[3].s) IN
            IF text[4].s = "="
            THEN <<a * 4 + b \div 16, (b % 16) * 16 + c \div 4>> \o rest
            ELSE <<a * 4 + b \div 16,
                   (b % 16) * 16 + c \div 4,
                   (c % 4) * 64 + B64Value(text[4].s)>> \o rest

----------------------------------------------------------------------------
(* Paths and the file system.                                              *)
(* A path is its directory components, and its final component split at    *)
(* the last dot: the name is stem, or stem "." ext when dot holds.  ext is  *)
(* a sequence of characters, so that its case can be folded.               *)

MkPath(abs, dir, stem, dot, ext) ==
  [abs |-> abs, dir |-> dir, stem |-> stem, dot |-> dot, ext |-> ext]

NoPath == MkPath(FALSE, <<>>, "", FALSE, <<>>)

\* The working directory of the process.
Cwd == <<"work">>

TestPdf == MkPath(TRUE, <<"tmp">>, "test", TRUE, <<"p", "d", "f">>)
TestUpperPdf == MkPath(TRUE, <<"tmp">>, "test", TRUE, <<"P", "D", "F">>)
TestTxt == MkPath(TRUE, <<"tmp">>, "test", TRUE, <<"t", "x", "t">>)
HiddenPdf == MkPath(TRUE, <<"tmp">>, "", TRUE, <<"p", "d", "f">>)
NoExt == MkPath(TRUE, <<"tmp">>, "noext", FALSE, <<>>)
RelMixedPdf == MkPath(FALSE, <<>>, "rel", TRUE, <<"P", "d", "f">>)
WorkMixedPdf == MkPath(TRUE, Cwd, "rel", TRUE, <<"P", "d", "f">>)

\* The absolute paths of the modelled disk.
AbsPaths == {TestPdf, TestUpperPdf, TestTxt, HiddenPdf, NoExt, WorkMixedPdf}
\* The paths a caller may pass.
InputPaths == AbsPaths \cup {RelMixedPdf}

\* A directory entry: nothing, a regular file and its bytes, a directory,
\* or a symbolic link and its target.
Missing == [kind |-> "none", data |-> <<>>, target |-> NoPath]
File(data) == [kind |-> "file", data |-> data, target |-> NoPath]
Dir == [kind |-> "dir", data |-> <<>>, target |-> NoPath]
Link(target) == [kind |-> "link", data |-> <<>>, target |-> target]

\* Path.absolute(): a relative path is taken from the working directory.
Absolute(p) == IF p.abs THEN p ELSE [p EXCEPT !.abs = TRUE, !.dir = Cwd \o p.dir]

\* How many links a path lookup follows before it gives up.
MaxLinkDepth == 2

RECURSIVE FollowLinks(_, _, _)
\* The path a lookup of the absolute path p ends at, symbolic links
\* followed; NoPath when there are too many.
FollowLinks(disk, p, fuel) ==
  IF disk[p].kind # "link" THEN p
  ELSE IF fuel = 0 THEN NoPath
  ELSE FollowLinks(disk, disk[p].target, fuel - 1)

\* Path.resolve(): absolute, symbolic links resolved.
Resolve(disk, p) == FollowLinks(disk, Absolute(p), MaxLinkDepth)

\* Path.exists(): the path, links followed, names a file or a directory.
Exists(disk, p) ==
  LET q == Resolve(disk, p) IN q # NoPath /\ disk[q].kind \in {"file", "dir"}

\* Path.is_absolute()
IsAbsolute(p) == p.abs

\* Path.suffix: the final component from its last dot on, unless that dot
\* starts or ends the name.
Suffix(p) ==
  IF p.dot /\ p.stem # "" /\ p.ext # <<>> THEN <<".">> \o p.ext ELSE <<>>

\* str(path), for an error message.
PathText(p) ==
  (IF p.abs THEN <<P("/")>> ELSE <<>>)
  \o [i \in 1..Len(p.dir) |-> W(p.dir[i])]
  \o <<W(p.stem)>>
  \o (IF p.dot THEN <<P(".")>> ELSE <<>>)
  \o [i \in 1..Len(p.ext) |-> W(p.ext[i])]

----------------------------------------------------------------------------
(* PDFUtils.                                                               *)

\* What a PDFUtils function did: exc is "" and path or text is the value it
\* returned, or exc is the class of the exception it raised.
UtilReturnPath(p) == [exc |-> "", msg |-> <<>>, path |-> p, text |-> <<>>]
UtilReturnText(t) == [exc |-> "", msg |-> <<>>, path |-> NoPath, text |-> t]
UtilRaise(cls, msg) == [exc |-> cls, msg |-> msg, path |-> NoPath, text |-> <<>>]

PdfSuffix == <<".", "p", "d", "f">>

\* The mutant of validate_pdf_path that checks the extension first.
validate_pdf_path_ext_first(disk, pdf_path) ==
  IF Lower(Suffix(pdf_path)) # PdfSuffix
  THEN UtilRaise("ValueError", <<W("File is not a PDF: ")>> \o PathText(pdf_path))
  ELSE IF ~Exists(disk, pdf_path)
  THEN UtilRaise("FileNotFoundError",
                 <<W("PDF file not found: ")>> \o PathText(pdf_path))
  ELSE UtilReturnPath(Resolve(disk, pdf_path))

\* The mutant of validate_pdf_path that compares the suffix as it is.
validate_pdf_path_case_sensitive(disk, pdf_path) ==
  IF ~Exists(disk, pdf_path)
  THEN UtilRaise("FileNotFoundError",
                 <<W("PDF file not found: ")>> \o PathText(pdf_path))
  ELSE IF Suffix(pdf_path) # PdfSuffix
  THEN UtilRaise("ValueError", <<W("File is not a PDF: ")>> \o PathText(pdf_path))
  ELSE UtilReturnPath(Resolve(disk, pdf_path))

\* PDFUtils.validate_pdf_path
validate_pdf_path(disk, pdf_path) ==
  IF ~Exists(disk, pdf_path)
  THEN UtilRaise("FileNotFoundError",
                 <<W("PDF file not found: ")>> \o PathText(pdf_path))
  ELSE IF Lower(Suffix(pdf_path)) # PdfSuffix
  THEN UtilRaise("ValueError", <<W("File is not a PDF: ")>> \o PathText(pdf_path))
  ELSE UtilReturnPath(Resolve(disk, pdf_path))

\* open(path, "rb").read(): the bytes of a regular file; a directory cannot
\* be opened for reading.
ReadBytes(disk, path) ==
  IF disk[path].kind = "file"
  THEN [exc |-> "", data |-> disk[path].data]
  ELSE [exc |-> "IsADirectoryError", data |-> <<>>]

\* The mutant of read_pdf_as_base64 that strips the "=" padding.
read_pdf_as_base64_unpadded(disk, pdf_path) ==
  LET v == validate_pdf_path(disk, pdf_path) IN
    IF v.exc # "" THEN v
    ELSE LET r == ReadBytes(disk, v.path) IN
      IF r.exc # "" THEN UtilRaise(r.exc, <<>>)
      ELSE UtilReturnText(ascii_decode(
             SelectSeq(b64encode(r.data), LAMBDA code : code # B64Pad)))

\* PDFUtils.read_pdf_as_base64
read_pdf_as_base64(disk, pdf_path) ==
  LET v == validate_pdf_path(disk, pdf_path) IN
    IF v.exc # "" THEN v
    ELSE LET r == ReadBytes(disk, v.path) IN
      IF r.exc # "" THEN UtilRaise(r.exc, <<>>)
      ELSE UtilReturnText(ascii_decode(b64encode(r.data)))

----------------------------------------------------------------------------
(* Exceptions.                                                             *)

\* The base class of an exception class ("" for the root, Exception).
ExcParent(cls) ==
  CASE cls = "FileNotFoundError" -> "OSError"
    [] cls = "IsADirectoryError" -> "OSError"
    [] cls = "OSError" -> "Exception"
    [] cls = "JSONDecodeError" -> "ValueError"
    [] cls = "ValueError" -> "Exception"
    [] cls = "KeyError" -> "LookupError"
    [] cls = "IndexError" -> "LookupError"
    [] cls = "LookupError" -> "Exception"
    [] cls = "AttributeError" -> "Exception"
    [] cls = "TypeError" -> "Exception"
    [] cls = "RuntimeError" -> "Exception"
    [] cls = "HTTPStatusError" -> "HTTPError"
    [] cls = "ConnectError" -> "TransportError"
    [] cls = "ReadTimeout" -> "TimeoutException"
    [] cls = "TimeoutException" -> "TransportError"
    [] cls = "TransportError" -> "RequestError"
    [] cls = "RequestError" -> "HTTPError"
    [] cls = "HTTPError" -> "Exception"
    [] OTHER -> ""

RECURSIVE IsInstance(_, _)
\* isinstance(an exception of class cls, base): what an except clause tests.
IsInstance(cls, base) ==
  cls # "" /\ (cls = base \/ IsInstance(ExcParent(cls), base))

\* How a call ended: it returned value, or it raised an exception of class
\* exc with message msg.
Return(v) == [kind |-> "return", value |-> v, exc |-> "", msg |-> <<>>]
Raise(cls, msg) == [kind |-> "raise", value |-> None, exc |-> cls, msg |-> msg]
\* No call has ended.
NoOutcome == [kind |-> "none", value |-> None, exc |-> "", msg |-> <<>>]

----------------------------------------------------------------------------
(* MCPProtocol.                                                            *)

\* A dict key or a str constant of the source.
Key(x) == PyStr(x)

\* MCPProtocol.create_request
create_request(method, params, request_id) ==
  Obj(<<Member(Key("jsonrpc"), Str(PyStr("2.0"))),
        Member(Key("id"), request_id),
        Member(Key("method"), method),
        Member(Key("params"), params)>>)

\* The mutant of create_tool_call_request that puts the arguments next to
\* the name instead of under "arguments".
create_tool_call_request_flat(tool_name, arguments, request_id) ==
  create_request(Str(PyStr("tools/call")),
                 Obj(<<Member(Key("name"), tool_name)>> \o arguments.m),
                 request_id)

\* The default of request_id in both builders (lines 29 and 45).
DefaultRequestId == Num(1)

\* MCPProtocol.create_tool_call_request
create_tool_call_request(tool_name, arguments, request_id) ==
  create_request(Str(PyStr("tools/call")),
                 Obj(<<Member(Key("name"), tool_name),
                       Member(Key("arguments"), arguments)>>),
                 request_id)

----------------------------------------------------------------------------
(* MCPHTTPClient: what it does with a response.                            *)

\* An HTTP exchange as the client sees it: a response (status and body), or
\* neterr, the class of the exception httpx raised instead.
HttpResponse(status, body) == [status |-> status, body |-> body, neterr |-> ""]
HttpFailure(cls) == [status |-> 0, body |-> <<>>, neterr |-> cls]
NoResponse == [status |-> 0, body |-> <<>>, neterr |-> ""]

\* The mutant of raise_for_status that lets redirects through.
raise_for_status_4xx_5xx(status) == status >= 400

\* response.raise_for_status(): TRUE when it raises httpx.HTTPStatusError,
\* which it does unless the status is a 2xx.
raise_for_status(status) == ~(status \in 200..299)

\* bool(value) is False
Falsy(v) ==
  \/ v.k \in {"null", "false"}
  \/ v.k = "str" /\ v.s = <<>>
  \/ v.k = "num" /\ v.i = 0
  \/ v.k \in {"obj", "arr"} /\ v.m = <<>>

\* The mutant of HasError that never finds the key.
HasError_never(rpc_response) == [exc |-> "", has |-> FALSE]

\* "error" in rpc_response: a key of a dict, an element of a list, a
\* substring of a str; any other value is not iterable.
HasError(rpc_response) ==
  CASE rpc_response.k = "obj" ->
         [exc |-> "", has |-> HasKey(rpc_response, Key("error"))]
    [] rpc_response.k = "arr" ->
         [exc |-> "",
          has |-> \E j \in 1..Len(rpc_response.m) :
                    rpc_response.m[j].val = Str(Key("error"))]
    [] rpc_response.k = "str" ->
         [exc |-> "", has |-> Contains(rpc_response.s, Key("error"))]
    [] OTHER -> [exc |-> "TypeError", has |-> FALSE]

\* The mutant of RaiseRpcError that has an exception class of its own for
\* the JSON-RPC error.
RaiseRpcError_own_class(rpc_response) ==
  IF rpc_response.k # "obj" THEN Raise("TypeError", <<>>)
  ELSE LET error == Lookup(rpc_response, Key("error")) IN
    IF error.k # "obj" THEN Raise("AttributeError", <<>>)
    ELSE Raise("MCPProtocolError",
               <<W("MCP error [")>> \o Format(DictGet(error, Key("code"), None))
               \o <<W("]: ")>> \o Format(DictGet(error, Key("message"), None)))

\* The raise of lines 99-102: error = rpc_response["error"], then the
\* ValueError whose message formats error.get('code') and
\* error.get('message').
RaiseRpcError(rpc_response) ==
  IF rpc_response.k # "obj" THEN Raise("TypeError", <<>>)
  ELSE LET error == Lookup(rpc_response, Key("error")) IN
    IF error.k # "obj" THEN Raise("AttributeError", <<>>)
    ELSE Raise("ValueError",
               <<W("MCP error [")>> \o Format(DictGet(error, Key("code"), None))
               \o <<W("]: ")>> \o Format(DictGet(error, Key("message"), None)))

\* The mutant of IsEmptyContent that tests for an absent value only.
IsEmptyContent_none_only(content_items) == content_items.k = "null"

\* not content_items
IsEmptyContent(content_items) == Falsy(content_items)

\* The mutant of FirstItem that takes the last item.
FirstItem_last(content_items) ==
  CASE content_items.k = "arr" ->
         IF content_items.m = <<>> THEN [exc |-> "IndexError", item |-> None]
         ELSE [exc |-> "", item |-> content_items.m[Len(content_items.m)].val]
    [] content_items.k = "str" ->
         IF content_items.s = <<>> THEN [exc |-> "IndexError", item |-> None]
         ELSE [exc |-> "",
               item |-> Str(<<content_items.s[Len(content_items.s)]>>)]
    [] content_items.k = "obj" -> [exc |-> "KeyError", item |-> None]
    [] OTHER -> [exc |-> "TypeError", item |-> None]

\* content_items[0]: the first element of a list, the first character of a
\* str (IndexError when there is none); a dict has no key 0, and any other
\* value is not subscriptable.
FirstItem(content_items) ==
  CASE content_items.k = "arr" ->
         IF content_items.m = <<>> THEN [exc |-> "IndexError", item |-> None]
         ELSE [exc |-> "", item |-> content_items.m[1].val]
    [] content_items.k = "str" ->
         IF content_items.s = <<>> THEN [exc |-> "IndexError", item |-> None]
         ELSE [exc |-> "", item |-> Str(<<content_items.s[1]>>)]
    [] content_items.k = "obj" -> [exc |-> "KeyError", item |-> None]
    [] OTHER -> [exc |-> "TypeError", item |-> None]

\* The mutant of ParseItem that hands back the text itself.
ParseItem_raw(first_item) ==
  IF first_item.k # "obj" THEN Raise("AttributeError", <<>>)
  ELSE IF DictGet(first_item, Key("type"), None) = Str(Key("text")) THEN
    IF ~HasKey(first_item, Key("text")) THEN Raise("KeyError", <<>>)
    ELSE Return(Lookup(first_item, Key("text")))
  ELSE Return(EmptyDict)

\* The mutant of ParseItem that takes a text that is no JSON for an empty
\* result.
ParseItem_lenient(first_item) ==
  IF first_item.k # "obj" THEN Raise("AttributeError", <<>>)
  ELSE IF DictGet(first_item, Key("type"), None) = Str(Key("text")) THEN
    IF ~HasKey(first_item, Key("text")) THEN Raise("KeyError", <<>>)
    ELSE LET text == Lookup(first_item, Key("text")) IN
      IF text.k # "str" THEN Raise("TypeError", <<>>)
      ELSE LET parsed == json_loads(text.s) IN
        IF parsed.ok THEN Return(parsed.val)
        ELSE Return(EmptyDict)
  ELSE Return(EmptyDict)

\* Lines 114-117: json.loads(first_item["text"]) for an item of type
\* "text", {} for any other item.
ParseItem(first_item) ==
  IF first_item.k # "obj" THEN Raise("AttributeError", <<>>)
  ELSE IF DictGet(first_item, Key("type"), None) = Str(Key("text")) THEN
    IF ~HasKey(first_item, Key("text")) THEN Raise("KeyError", <<>>)
    ELSE LET text == Lookup(first_item, Key("text")) IN
      IF text.k # "str" THEN Raise("TypeError", <<>>)
      ELSE LET parsed == json_loads(text.s) IN
        IF parsed.ok THEN Return(parsed.val)
        ELSE Raise("JSONDecodeError", <<>>)
  ELSE Return(EmptyDict)

\* Lines 97-117 of _call_tool, on the parsed body.
UnwrapRpc(rpc_response) ==
  LET e == HasError(rpc_response) IN
    IF e.exc # "" THEN Raise(e.exc, <<>>)
    ELSE IF e.has THEN RaiseRpcError(rpc_response)
    ELSE IF rpc_response.k # "obj" THEN Raise("AttributeError", <<>>)
    ELSE LET result == DictGet(rpc_response, Key("result"), EmptyDict) IN
      IF result.k # "obj" THEN Raise("AttributeError", <<>>)
      ELSE LET content_items == DictGet(result, Key("content"), Arr(<<>>)) IN
        IF IsEmptyContent(content_items) THEN Return(EmptyDict)
        ELSE LET f == FirstItem(content_items) IN
          IF f.exc # "" THEN Raise(f.exc, <<>>)
          ELSE ParseItem(f.item)

\* _call_tool from the completion of the POST on (lines 91-117): the
\* exception httpx raised, or the status check, the parse of the body and
\* the unwrapping.
CallToolOutcome(resp) ==
  IF resp.neterr # "" THEN Raise(resp.neterr, <<>>)
  ELSE IF raise_for_status(resp.status) THEN Raise("HTTPStatusError", <<>>)
  ELSE LET rpc == json_loads(resp.body) IN
    IF ~rpc.ok THEN Raise("JSONDecodeError", <<>>)
    ELSE UnwrapRpc(rpc.val)

\* extract_text, line 144: result.get("text", "") on what _call_tool gave.
ExtractTextOutcome(tool) ==
  IF tool.kind = "raise" THEN tool
  ELSE IF tool.value.k # "obj" THEN Raise("AttributeError", <<>>)
  ELSE Return(DictGet(tool.value, Key("text"), Str(<<>>)))

\* The mutant of ExtractMetadataOutcome that keeps the known keys only.
ExtractMetadataOutcome_known_keys(tool) ==
  IF tool.kind = "raise" \/ tool.value.k # "obj" THEN tool
  ELSE Return(Obj(SelectSeq(tool.value.m,
                            LAMBDA member :
                              member.key \in {Key("title"), Key("pageCount")})))

\* extract_metadata, line 172: the result as it is.
ExtractMetadataOutcome(tool) == tool

\* The mutant of HealthCheckOutcome that takes any 2xx for healthy.
HealthCheckOutcome_2xx(resp) ==
  IF resp.neterr # "" THEN
    IF IsInstance(resp.neterr, "HTTPError") THEN Return(PyFalse)
    ELSE Raise(resp.neterr, <<>>)
  ELSE Return(IF resp.status \in 200..299 THEN PyTrue ELSE PyFalse)

\* health_check from the completion of the GET on (lines 180-184).
HealthCheckOutcome(resp) ==
  IF resp.neterr # "" THEN
    IF IsInstance(resp.neterr, "HTTPError") THEN Return(PyFalse)
    ELSE Raise(resp.neterr, <<>>)
  ELSE Return(IF resp.status = 200 THEN PyTrue ELSE PyFalse)

----------------------------------------------------------------------------
(* MCPHTTPClient.__init__: the URLs and the headers.                       *)
(* A URL is a str: the scheme, "://" and the authority as tokens, then the *)
(* path, a "/" token before or after each segment, then "?" and the query  *)
(* when there is one.  The modelled URLs carry no fragment and no dot      *)
(* segment.                                                                *)

RECURSIVE rstrip(_, _)
\* str.rstrip(ch): every trailing ch is removed.
rstrip(text, ch) ==
  IF text # <<>> /\ text[Len(text)] = ch
  THEN rstrip(SubSeq(text, 1, Len(text) - 1), ch)
  ELSE text

\* The index of the first token tok of text, 0 when there is none.
Find(text, tok) ==
  IF \E i \in 1..Len(text) : text[i] = tok
  THEN CHOOSE i \in 1..Len(text) :
         text[i] = tok /\ \A j \in 1..(i - 1) : text[j] # tok
  ELSE 0

\* urllib.parse.urlsplit: the scheme is what stands before the first ":",
\* the authority what follows "//", the query what follows "?".
urlsplit(url) ==
  LET hasNetloc == /\ Len(url) >= 3
                   /\ url[1].t = "w" /\ url[2] = P("://") /\ url[3].t = "w"
      hasScheme == hasNetloc \/ (Len(url) >= 2 /\ url[1].t = "w" /\ url[2] = P(":"))
      rest == SubSeq(url, (IF hasNetloc THEN 4 ELSE IF hasScheme THEN 3 ELSE 1),
                     Len(url))
      q == Find(rest, P("?"))
  IN [scheme |-> IF hasScheme THEN url[1].s ELSE "",
      netloc |-> IF hasNetloc THEN <<url[3]>> ELSE <<>>,
      path |-> IF q = 0 THEN rest ELSE SubSeq(rest, 1, q - 1),
      query |-> IF q = 0 THEN <<>> ELSE SubSeq(rest, q + 1, Len(rest))]

\* The schemes urllib.parse resolves relative references for
\* (uses_relative), "" being no scheme.
UsesRelative == {"", "http", "https", "ftp", "file", "ws", "wss"}

RECURSIVE SplitSlash(_)
\* path.split("/"): the segments of a path, empty ones included.
SplitSlash(path) ==
  LET i == Find(path, P("/")) IN
    IF i = 0 THEN <<path>>
    ELSE <<SubSeq(path, 1, i - 1)>> \o SplitSlash(SubSeq(path, i + 1, Len(path)))

RECURSIVE JoinSlash(_)
\* "/".join(segments)
JoinSlash(segments) ==
  IF segments = <<>> THEN <<>>
  ELSE IF Len(segments) = 1 THEN segments[1]
  ELSE segments[1] \o <<P("/")>> \o JoinSlash(Tail(segments))

\* urllib.parse.urlunsplit of a scheme, an authority and a path.
urlunsplit(scheme, netloc, path) ==
  LET rooted == IF path # <<>> /\ path[1] # P("/") THEN <<P("/")>> \o path
                ELSE path
  IN IF netloc # <<>> THEN <<W(scheme), P("://")>> \o netloc \o rooted
     ELSE IF scheme # "" THEN <<W(scheme), P(":")>> \o path
     ELSE path

\* urllib.parse.urljoin(base, url) for a url that is one relative segment:
\* url itself when base is empty or its scheme is not resolved against;
\* otherwise the path of base up to its last "/", empty segments in the
\* middle dropped, followed by url; the query of base is not kept.
urljoin(base, url) ==
  IF base = <<>> THEN url
  ELSE LET b == urlsplit(base) IN
    IF b.scheme \notin UsesRelative THEN url
    ELSE LET parts == SplitSlash(b.path)
             base_parts == IF parts[Len(parts)] # <<>>
                           THEN SubSeq(parts, 1, Len(parts) - 1) ELSE parts
             segments == base_parts \o <<url>>
             middle == SelectSeq(SubSeq(segments, 2, Len(segments) - 1),
                                 LAMBDA seg : seg # <<>>)
             resolved == IF Len(segments) = 1 THEN segments
                         ELSE <<segments[1]>> \o middle
                              \o <<segments[Len(segments)]>>
             joined == JoinSlash(resolved)
      IN urlunsplit(b.scheme, b.netloc,
                    IF joined = <<>> THEN <<P("/")>> ELSE joined)

\* The mutant of BaseUrl that keeps the URL as it was given.
BaseUrl_as_given(base_url) == base_url

\* Line 45: base_url.rstrip("/")
BaseUrl(base_url) == rstrip(base_url, P("/"))

\* Line 46, and line 181 for "health": urljoin(self.base_url + "/", name)
Endpoint(base_url, name) == urljoin(base_url \o <<P("/")>>, PyStr(name))

\* The mutant of Headers that sends the Authorization header always.
Headers_always_authorized(api_key) ==
  Obj(<<Member(Key("Content-Type"), Str(PyStr("application/json"))),
        Member(Key("Accept"), Str(PyStr("application/json, text/event-stream"))),
        Member(Key("Authorization"), Str(<<W("Bearer ")>> \o Format(api_key)))>>)

\* Lines 48-53: the two fixed headers, and Authorization when api_key is
\* truthy (neither None nor "").
Headers(api_key) ==
  Obj(<<Member(Key("Content-Type"), Str(PyStr("application/json"))),
        Member(Key("Accept"), Str(PyStr("application/json, text/event-stream")))>>
      \o (IF Falsy(api_key) THEN <<>>
          ELSE <<Member(Key("Authorization"),
                        Str(<<W("Bearer ")>> \o Format(api_key)))>>))

\* The defaults of timeout and read_timeout, in seconds (lines 34-35).
DefaultTimeout == 30
DefaultReadTimeout == 60

\* MCPHTTPClient.__init__ (lines 45-57): the configuration of a client.
MCPHTTPClient_init(base_url, api_key, timeout, read_timeout) ==
  [base_url |-> BaseUrl(base_url),
   mcp_endpoint |-> Endpoint(BaseUrl(base_url), "mcp"),
   headers |-> Headers(api_key),
   timeout |-> timeout,
   read_timeout |-> read_timeout]

\* The base URLs a client may be constructed with.
LocalUrl == <<W("http"), P("://"), W("localhost:3000")>>
LocalUrlSlash == LocalUrl \o <<P("/")>>
LocalUrlTwoSlashes == LocalUrl \o <<P("/"), P("/")>>
ApiUrl == <<W("https"), P("://"), W("mcp.example.com"), P("/"), W("api")>>
ApiUrlSlash == ApiUrl \o <<P("/")>>
QueryUrl == LocalUrl \o <<P("/"), W("api"), P("?"), W("k=1")>>
NoSchemeUrl == <<W("localhost"), P(":"), W("3000")>>
HierarchicalUrls ==
  {LocalUrl, LocalUrlSlash, LocalUrlTwoSlashes, ApiUrl, ApiUrlSlash}
BaseUrlArgs == HierarchicalUrls \cup {QueryUrl, NoSchemeUrl}

\* The API keys a client may be constructed with: none, an empty one, one.
SecretKey == Str(PyStr("secret"))
ApiKeyArgs == {None, Str(<<>>), SecretKey}

----------------------------------------------------------------------------
(* The server: the responses a client may be given.                        *)

TextOf(x) == Str(PyStr(x))

\* What the extract_text tool answers: the text and a page count.
SamplePayload ==
  Obj(<<Member(Key("text"), TextOf("Sample PDF text")),
        Member(Key("pageCount"), Num(1))>>)
\* What the extract_metadata tool answers.
MetadataPayload ==
  Obj(<<Member(Key("title"), TextOf("Test PDF")),
        Member(Key("author"), TextOf("Test Author")),
        Member(Key("pageCount"), Num(5))>>)
\* A payload whose text is null, and one that is no object.
NullTextPayload == Obj(<<Member(Key("text"), None)>>)
ListPayload == Arr(<<Elem(Num(1))>>)

\* The payloads that are JSON objects.
ObjectPayloads == {SamplePayload, MetadataPayload, NullTextPayload}

\* A JSON text cut short, and a text that is no JSON.
TruncatedText == <<P("{"), Q(Key("text")), P(":")>>
PlainText == PyStr("Sample PDF text")

\* The texts a server may put in a content item.
ContentTexts ==
  {json_dumps(v) : v \in ObjectPayloads \cup {ListPayload}}
  \cup {TruncatedText, PlainText}

TextItem(text) ==
  Obj(<<Member(Key("type"), TextOf("text")), Member(Key("text"), Str(text))>>)
ImageItem ==
  Obj(<<Member(Key("type"), TextOf("image")), Member(Key("data"), TextOf("AAAA"))>>)
\* An item of type "text" that has no text field.
BareTextItem == Obj(<<Member(Key("type"), TextOf("text"))>>)

\* The sequences of content items a server may answer with.
ContentLists ==
  {<<Elem(TextItem(t))>> : t \in ContentTexts}
  \cup {<<>>,
        <<Elem(ImageItem), Elem(TextItem(json_dumps(SamplePayload)))>>,
        <<Elem(TextItem(json_dumps(SamplePayload))),
          Elem(TextItem(json_dumps(MetadataPayload)))>>,
        <<Elem(TextItem(json_dumps(MetadataPayload))), Elem(ImageItem)>>,
        <<Elem(BareTextItem)>>}

\* The result objects: a content list, no content key, a null content.
Results ==
  {Obj(<<Member(Key("content"), Arr(items))>>) : items \in ContentLists}
  \cup {EmptyDict, Obj(<<Member(Key("content"), None)>>)}

\* The error values: the JSON-RPC error object, one without a message, and
\* the null of a server that always writes the key.
InvalidRequest ==
  Obj(<<Member(Key("code"), Num(-32600)),
        Member(Key("message"), TextOf("Invalid request"))>>)
CodeOnlyError == Obj(<<Member(Key("code"), Num(-32000))>>)
ErrorValues == {InvalidRequest, CodeOnlyError, None}

\* The id the server writes in its responses.
ServerId == Num(1)

\* A JSON-RPC response with the given members after jsonrpc and id.
Envelope(members) ==
  Obj(<<Member(Key("jsonrpc"), TextOf("2.0")), Member(Key("id"), ServerId)>>
      \o members)

SampleResult ==
  Obj(<<Member(Key("content"),
               Arr(<<Elem(TextItem(json_dumps(SamplePayload)))>>))>>)

\* The JSON values a server may send as the body of a response.
RpcValues ==
  {Envelope(<<Member(Key("result"), r)>>) : r \in Results \cup {None}}
  \cup {Envelope(<<Member(Key("error"), e)>>) : e \in ErrorValues}
  \cup {Envelope(<<Member(Key("result"), SampleResult),
                   Member(Key("error"), e)>>) : e \in {InvalidRequest, None}}
  \cup {Envelope(<<>>), Arr(<<>>)}

\* A body that is no JSON.
ErrorPage == PyStr("Internal Server Error")

\* The bodies of the responses.
Bodies == {json_dumps(v) : v \in RpcValues} \cup {ErrorPage, <<>>}

\* The bodies a server sends with any status.
CommonBodies ==
  {json_dumps(Envelope(<<Member(Key("result"), SampleResult)>>)),
   json_dumps(Envelope(<<Member(Key("error"), InvalidRequest)>>)),
   ErrorPage}

\* The statuses of the modelled responses.
OkStatuses == {200, 201}
ErrorStatuses == {301, 404, 500}

\* The exceptions httpx raises when no response arrives.
NetworkFailures == {"ConnectError", "ReadTimeout"}

\* What may come back for a POST to the MCP endpoint.
ToolResponses ==
  {HttpResponse(200, b) : b \in Bodies}
  \cup {HttpResponse(st, b) : st \in {201} \cup ErrorStatuses, b \in CommonBodies}
  \cup {HttpFailure(e) : e \in NetworkFailures}

\* What may come back for a GET of /health.
HealthResponses ==
  {HttpResponse(st, <<>>) : st \in {200, 201, 204, 301, 503}}
  \cup {HttpFailure(e) : e \in NetworkFailures}

\* The responses the concurrent callers are given: a result, a JSON-RPC
\* error, a server error, no connection.
FewToolResponses ==
  {HttpResponse(200, json_dumps(Envelope(<<Member(Key("result"), SampleResult)>>))),
   HttpResponse(200, json_dumps(Envelope(<<Member(Key("error"), InvalidRequest)>>))),
   HttpResponse(500, ErrorPage),
   HttpFailure("ConnectError")}
FewHealthResponses ==
  {HttpResponse(200, <<>>), HttpResponse(503, <<>>), HttpFailure("ConnectError")}

----------------------------------------------------------------------------
(* The state.                                                              *)

\* The client instances, and the coroutines (asyncio tasks) calling them.
Clients == {"c1", "c2"}
NumTasks == 2
Tasks == 1..NumTasks
\* How many calls of the public methods the callers make in all.
MaxCalls == 3

\* The bytes the files of the model are made of, and how long a file is.
SampleBytes == {0, 77, 251, 255}
MaxFileLen == 3

ToolOps == {"extract_text", "extract_metadata"}

VARIABLES
  fs,          \* the disk: the entry at each absolute path
  util,        \* the last PDFUtils call made on its own, and how it ended
  request_id,  \* per client: self._request_id
  is_closed,   \* per client: self.client.is_closed
  posts,       \* the POSTs given to httpx so far, oldest first
  pc,          \* per task: where its call stands
  call,        \* per task: the call it is in
  last,        \* the call of a public method that ended last
  ncalls,      \* the calls started so far
  overlapped,  \* whether two tool calls of one client were ever in flight
               \* at once
  gets,        \* the GETs given to httpx so far, oldest first
  config,      \* per client: what __init__ fixed (URLs, headers, timeouts)
  ctor,        \* per client: the arguments __init__ was called with
  scope,       \* the async with block around the client, if there is one
  built,       \* the last request an MCPProtocol builder made on its own
  analyzer,    \* the PDFAnalyzerHTTP that owns client c1, if there is one
  inbox        \* per call: what the network has delivered for its request

vars ==
  <<fs, util, request_id, is_closed, posts, pc, call, last, ncalls, overlapped,
    gets, config, ctor, scope, built, analyzer, inbox>>

\* What the calls of the public methods never write.
frameVars == <<config, ctor, scope, built, analyzer, inbox>>

clientVars ==
  <<request_id, is_closed, posts, pc, call, last, ncalls, overlapped, gets,
    config, ctor, scope, analyzer, inbox>>

NoUtil == [op |-> "", path |-> NoPath, out |-> UtilReturnPath(NoPath)]

NoCall ==
  [op |-> "", client |-> "", path |-> NoPath, content |-> <<>>, read |-> 0,
   id |-> 0, n |-> 0]

\* No async with block was entered.
NoScope == [owner |-> "", state |-> "none", exc |-> NoOutcome]

\* No request was built.
NoBuilt ==
  [fn |-> "", method |-> None, params |-> None, tool_name |-> None,
   arguments |-> None, given |-> FALSE, request_id |-> None, out |-> None]

\* A task that is in no method of the analyzer: op is the method it called
\* last, at the await its coroutine stands at, ids the request ids its tool
\* calls took, text and metadata what the two extractions returned, runs
\* and prompt the calls of agent.run it made, out how the method ended.
NoJob ==
  [op |-> "", path |-> NoPath, at |-> "idle", ids |-> <<>>,
   text |-> NoOutcome, metadata |-> NoOutcome, runs |-> 0, prompt |-> <<>>,
   out |-> NoOutcome]

\* No analyzer was constructed.
NoAnalyzer ==
  [use_agent |-> FALSE, has_agent |-> FALSE, job |-> [t \in Tasks |-> NoJob]]

\* Nothing has arrived for any call: calls are numbered as they start.
NoInbox == [n \in 1..MaxCalls |-> NoResponse]

NoLast ==
  [op |-> "", client |-> "", path |-> NoPath, resp |-> NoResponse,
   tool |-> NoOutcome, out |-> NoOutcome]

\* The call that ended, for last: the method, its client and path, the
\* response it was given if any, how _call_tool ended if it ran, and how
\* the method ended.
Ended(op, c, path, resp, tool, out) ==
  [op |-> op, client |-> c, path |-> path, resp |-> resp, tool |-> tool,
   out |-> out]

RECURSIVE SeqsUpTo(_, _)
\* The sequences over S of length at most n.
SeqsUpTo(S, n) ==
  IF n = 0 THEN {<<>>}
  ELSE LET shorter == SeqsUpTo(S, n - 1) IN
    shorter \cup {Append(q, e) : q \in shorter, e \in S}

\* The contents a file may have.
Contents == SeqsUpTo(SampleBytes, MaxFileLen)

EmptyDisk == [p \in AbsPaths |-> Missing]

\* The disks PDFUtils is tried on: one path that is missing, a file, a
\* directory, or a symbolic link to another path that is missing, a file or
\* a directory; nothing else.
DiskLayouts ==
  {[EmptyDisk EXCEPT ![p] = e] :
     p \in AbsPaths, e \in {Missing, Dir} \cup {File(d) : d \in Contents}}
  \cup
  {[EmptyDisk EXCEPT ![pq[1]] = Link(pq[2]), ![pq[2]] = e] :
     pq \in {x \in AbsPaths \X AbsPaths : x[1] # x[2]},
     e \in {Missing, Dir} \cup {File(d) : d \in SeqsUpTo(SampleBytes, 1)}}

\* The disk the client's callers work on: a PDF ("%PDF"), a text file.
ClientDisk ==
  [p \in AbsPaths |->
     IF p = TestPdf THEN File(<<37, 80, 68, 70>>)
     ELSE IF p = TestTxt THEN File(<<110, 111>>)
     ELSE Missing]

\* The paths the client's callers pass.
CallPaths == {TestPdf, TestTxt, TestUpperPdf}

\* __init__, lines 55-58: the httpx client is open and no id was issued;
\* no caller has done anything yet.
CallersInit ==
  /\ request_id = [c \in Clients |-> 0]
  /\ is_closed = [c \in Clients |-> FALSE]
  /\ posts = <<>>
  /\ gets = <<>>
  /\ pc = [t \in Tasks |-> "idle"]
  /\ call = [t \in Tasks |-> NoCall]
  /\ last = NoLast
  /\ ncalls = 0
  /\ overlapped = FALSE
  /\ scope = NoScope
  /\ inbox = NoInbox

\* The arguments of a constructor call.
CtorArgs(base_url, api_key, timeout, read_timeout) ==
  [base_url |-> base_url, api_key |-> api_key, timeout |-> timeout,
   read_timeout |-> read_timeout]

\* The clients are constructed with the arguments args, one record each.
Constructed(args) ==
  /\ ctor = args
  /\ config = [c \in Clients |->
                 MCPHTTPClient_init(args[c].base_url, args[c].api_key,
                                    args[c].timeout, args[c].read_timeout)]

\* The clients of the tests: one without and one with an API key.
TestArgs ==
  [c \in Clients |->
     IF c = "c1"
     THEN CtorArgs(LocalUrl, None, DefaultTimeout, DefaultReadTimeout)
     ELSE CtorArgs(ApiUrlSlash, SecretKey, DefaultTimeout, DefaultReadTimeout)]

ClientInit ==
  /\ CallersInit
  /\ Constructed(TestArgs)

Init ==
  /\ fs = ClientDisk
  /\ util = NoUtil
  /\ built = NoBuilt
  /\ analyzer = NoAnalyzer
  /\ ClientInit

----------------------------------------------------------------------------
(* The calls of the public methods.  A coroutine runs without interruption *)
(* from one await that suspends to the next: the only such await of a call *)
(* is the HTTP request.                                                    *)

\* The mutant of CanRun for preemptive threads.
CanRun_preemptive(t) == TRUE

\* The event loop runs task t only while no other task is between two
\* awaits (lines 84-91 hold no await before the POST).
CanRun(t) == \A u \in Tasks \ {t} : pc[u] # "running"

\* The tasks are alike: a new call is made by the first task that is free.
NextToCall(t) == \A u \in Tasks : u < t => pc[u] # "idle"

\* The mutant of StoreId for a counter that is an attribute of the class.
StoreId_class_attribute(ids, c, value) == [d \in Clients |-> value]

\* self._request_id = value: the counter is an attribute of the instance.
StoreId(ids, c, value) == [ids EXCEPT ![c] = value]

\* The mutant of next_request_id that returns the id before the increment.
next_request_id_post_increment(rid) == [stored |-> rid + 1, returned |-> rid]

\* _next_request_id on a counter read as rid: what is stored, what returned.
next_request_id(rid) == [stored |-> rid + 1, returned |-> rid + 1]

\* The request ids of the POSTs of client c, oldest first.
PostedIds(c) ==
  LET mine == SelectSeq(posts, LAMBDA post : post.client = c) IN
    [j \in 1..Len(mine) |-> Lookup(mine[j].request, Key("id"))]

\* The mutant of BeginTool that takes the request id before it validates
\* the file.
BeginTool_id_first(t, c, op, path) ==
  /\ pc[t] = "idle" /\ CanRun(t) /\ NextToCall(t) /\ ncalls < MaxCalls
  /\ ncalls' = ncalls + 1
  /\ LET encoded == read_pdf_as_base64(fs, path) IN
       IF encoded.exc # ""
       THEN /\ last' = Ended(op, c, path, NoResponse, NoOutcome,
                             Raise(encoded.exc, encoded.msg))
            /\ request_id' = StoreId(request_id, c, request_id[c] + 1)
            /\ UNCHANGED <<pc, call>>
       ELSE /\ pc' = [pc EXCEPT ![t] = "running"]
            /\ call' = [call EXCEPT ![t] =
                          [op |-> op, client |-> c, path |-> path,
                           content |-> encoded.text, read |-> request_id[c],
                           id |-> 0, n |-> ncalls + 1]]
            /\ UNCHANGED <<last, request_id>>
  /\ UNCHANGED <<fs, util, is_closed, posts, overlapped, gets>>
  /\ UNCHANGED frameVars

\* extract_text / extract_metadata up to the read of the counter: the file
\* is validated, read and encoded (lines 139, 166), and _call_tool starts
\* _next_request_id (line 62 reads self._request_id).
BeginTool(t, c, op, path) ==
  /\ pc[t] = "idle" /\ CanRun(t) /\ NextToCall(t) /\ ncalls < MaxCalls
  /\ ncalls' = ncalls + 1
  /\ LET encoded == read_pdf_as_base64(fs, path) IN
       IF encoded.exc # ""
       THEN /\ last' = Ended(op, c, path, NoResponse, NoOutcome,
                             Raise(encoded.exc, encoded.msg))
            /\ UNCHANGED <<pc, call>>
       ELSE /\ pc' = [pc EXCEPT ![t] = "running"]
            /\ call' = [call EXCEPT ![t] =
                          [op |-> op, client |-> c, path |-> path,
                           content |-> encoded.text, read |-> request_id[c],
                           id |-> 0, n |-> ncalls + 1]]
            /\ UNCHANGED last
  /\ UNCHANGED <<fs, util, request_id, is_closed, posts, overlapped, gets>>
  /\ UNCHANGED frameVars

\* _call_tool, lines 62-91: the counter is written, the request built and
\* given to httpx, which refuses it when the client was closed.
SendPost(t) ==
  /\ pc[t] = "running" /\ call[t].op \in ToolOps
  /\ LET c == call[t].client
         next == next_request_id(call[t].read)
         request == create_tool_call_request(
                      TextOf(call[t].op),
                      Obj(<<Member(Key("fileContent"), Str(call[t].content))>>),
                      Num(next.returned))
     IN /\ request_id' = StoreId(request_id, c, next.stored)
        /\ IF is_closed[c]
           THEN /\ last' = Ended(call[t].op, c, call[t].path, NoResponse,
                                 Raise("RuntimeError", <<>>),
                                 Raise("RuntimeError", <<>>))
                /\ pc' = [pc EXCEPT ![t] = "idle"]
                /\ call' = [call EXCEPT ![t] = NoCall]
                /\ UNCHANGED <<posts, overlapped>>
           ELSE /\ posts' = Append(posts,
                                  [client |-> c, n |-> call[t].n,
                                   url |-> config[c].mcp_endpoint,
                                   headers |-> config[c].headers,
                                   request |-> request])
                /\ pc' = [pc EXCEPT ![t] = "awaiting"]
                /\ call' = [call EXCEPT ![t].id = next.returned]
                /\ overlapped' =
                     (overlapped \/ \E u \in Tasks \ {t} :
                        /\ pc[u] = "awaiting"
                        /\ call[u].op \in ToolOps
                        /\ call[u].client = c)
                /\ UNCHANGED last
  /\ UNCHANGED <<fs, util, is_closed, ncalls, gets>>
  /\ UNCHANGED frameVars

\* The mutant of DeliverTool that makes a second attempt when the first
\* one failed.
DeliverTool_retry(t, resp) ==
  /\ pc[t] = "awaiting" /\ call[t].op \in ToolOps /\ CanRun(t)
  /\ LET tool == CallToolOutcome(resp)
         out == IF call[t].op = "extract_text" THEN ExtractTextOutcome(tool)
                ELSE ExtractMetadataOutcome(tool)
         again == out.kind = "raise" /\ Len(posts) < MaxCalls + 1
     IN /\ last' = Ended(call[t].op, call[t].client, call[t].path, resp, tool,
                         out)
        /\ pc' = [pc EXCEPT ![t] = IF again THEN "running" ELSE "idle"]
        /\ call' = [call EXCEPT ![t] =
                      IF again
                      THEN [call[t] EXCEPT !.read = request_id[call[t].client]]
                      ELSE NoCall]
  /\ UNCHANGED <<fs, util, request_id, is_closed, posts, ncalls, overlapped,
                 gets>>
  /\ UNCHANGED frameVars

\* The mutant of DeliverTool that gives the id back when the call failed.
DeliverTool_rolls_back(t, resp) ==
  /\ pc[t] = "awaiting" /\ call[t].op \in ToolOps /\ CanRun(t)
  /\ LET c == call[t].client
         tool == CallToolOutcome(resp)
         out == IF call[t].op = "extract_text" THEN ExtractTextOutcome(tool)
                ELSE ExtractMetadataOutcome(tool)
     IN /\ last' = Ended(call[t].op, c, call[t].path, resp, tool, out)
        /\ request_id' = IF out.kind = "raise"
                         THEN StoreId(request_id, c, request_id[c] - 1)
                         ELSE request_id
  /\ pc' = [pc EXCEPT ![t] = "idle"]
  /\ call' = [call EXCEPT ![t] = NoCall]
  /\ UNCHANGED <<fs, util, is_closed, posts, ncalls, overlapped, gets>>
  /\ UNCHANGED frameVars

\* The mutant of DeliverTool that rejects a response whose id is not the id
\* of the request.
DeliverTool_verifies_id(t, resp) ==
  /\ pc[t] = "awaiting" /\ call[t].op \in ToolOps /\ CanRun(t)
  /\ LET rpc == json_loads(resp.body)
         echoed == /\ rpc.ok /\ rpc.val.k = "obj"
                   /\ DictGet(rpc.val, Key("id"), None) = Num(call[t].id)
         tool == IF resp.neterr = "" /\ resp.status \in 200..299 /\ ~echoed
                 THEN Raise("ValueError", <<W("id mismatch")>>)
                 ELSE CallToolOutcome(resp)
         out == IF call[t].op = "extract_text" THEN ExtractTextOutcome(tool)
                ELSE ExtractMetadataOutcome(tool)
     IN last' = Ended(call[t].op, call[t].client, call[t].path, resp, tool,
                      out)
  /\ pc' = [pc EXCEPT ![t] = "idle"]
  /\ call' = [call EXCEPT ![t] = NoCall]
  /\ UNCHANGED <<fs, util, request_id, is_closed, posts, ncalls, overlapped,
                 gets>>
  /\ UNCHANGED frameVars

\* The mutant of DeliverTool that keeps waiting when the request failed.
DeliverTool_waits_for_success(t, resp) ==
  /\ pc[t] = "awaiting" /\ call[t].op \in ToolOps /\ CanRun(t)
  /\ resp.neterr = "" /\ resp.status \in 200..299
  /\ LET tool == CallToolOutcome(resp)
         out == IF call[t].op = "extract_text" THEN ExtractTextOutcome(tool)
                ELSE ExtractMetadataOutcome(tool)
     IN last' = Ended(call[t].op, call[t].client, call[t].path, resp, tool,
                      out)
  /\ pc' = [pc EXCEPT ![t] = "idle"]
  /\ call' = [call EXCEPT ![t] = NoCall]
  /\ UNCHANGED <<fs, util, request_id, is_closed, posts, ncalls, overlapped,
                 gets>>
  /\ UNCHANGED frameVars

\* The POST completes (line 91) and the call runs to its end: lines 92-117,
\* then line 144 or 172.
DeliverTool(t, resp) ==
  /\ pc[t] = "awaiting" /\ call[t].op \in ToolOps /\ CanRun(t)
  /\ LET tool == CallToolOutcome(resp)
         out == IF call[t].op = "extract_text" THEN ExtractTextOutcome(tool)
                ELSE ExtractMetadataOutcome(tool)
     IN last' = Ended(call[t].op, call[t].client, call[t].path, resp, tool,
                      out)
  /\ pc' = [pc EXCEPT ![t] = "idle"]
  /\ call' = [call EXCEPT ![t] = NoCall]
  /\ UNCHANGED <<fs, util, request_id, is_closed, posts, ncalls, overlapped,
                 gets>>
  /\ UNCHANGED frameVars

\* health_check, lines 180-181: the GET is given to httpx, which refuses it
\* with a RuntimeError when the client was closed.
BeginHealth(t, c) ==
  /\ pc[t] = "idle" /\ CanRun(t) /\ NextToCall(t) /\ ncalls < MaxCalls
  /\ ncalls' = ncalls + 1
  /\ IF is_closed[c]
     THEN /\ last' = Ended("health_check", c, NoPath, NoResponse, NoOutcome,
                           Raise("RuntimeError", <<>>))
          /\ UNCHANGED <<pc, call, gets>>
     ELSE /\ pc' = [pc EXCEPT ![t] = "awaiting"]
          /\ call' = [call EXCEPT ![t] =
                        [NoCall EXCEPT !.op = "health_check", !.client = c,
                                       !.n = ncalls + 1]]
          /\ gets' = Append(gets,
                            [client |-> c, n |-> ncalls + 1,
                             url |-> Endpoint(config[c].base_url, "health"),
                             headers |-> config[c].headers])
          /\ UNCHANGED last
  /\ UNCHANGED <<fs, util, request_id, is_closed, posts, overlapped>>
  /\ UNCHANGED frameVars

\* The GET completes: lines 181-184.
DeliverHealth(t, resp) ==
  /\ pc[t] = "awaiting" /\ call[t].op = "health_check" /\ CanRun(t)
  /\ last' = Ended("health_check", call[t].client, NoPath, resp, NoOutcome,
                   HealthCheckOutcome(resp))
  /\ pc' = [pc EXCEPT ![t] = "idle"]
  /\ call' = [call EXCEPT ![t] = NoCall]
  /\ UNCHANGED <<fs, util, request_id, is_closed, posts, ncalls, overlapped,
                 gets>>
  /\ UNCHANGED frameVars

\* The mutant of Close that also forgets the Authorization header.
Close_forgets_authorization(c) ==
  /\ ~is_closed[c]
  /\ \A t \in Tasks : pc[t] # "running"
  /\ is_closed' = [is_closed EXCEPT ![c] = TRUE]
  /\ config' = [config EXCEPT ![c].headers = Headers(None)]
  /\ UNCHANGED <<fs, util, request_id, posts, pc, call, last, ncalls, overlapped,
                 gets, ctor, scope, built, analyzer, inbox>>

\* close, line 188: the httpx client is closed.
Close(c) ==
  /\ ~is_closed[c]
  /\ \A t \in Tasks : pc[t] # "running"
  /\ is_closed' = [is_closed EXCEPT ![c] = TRUE]
  /\ UNCHANGED <<fs, util, request_id, posts, pc, call, last, ncalls, overlapped,
                 gets>>
  /\ UNCHANGED frameVars

\* Concurrent callers of one client.
Next ==
  \/ \E t \in Tasks, op \in ToolOps, path \in CallPaths :
       BeginTool(t, "c1", op, path)
  \/ \E t \in Tasks : SendPost(t)
  \/ \E t \in Tasks, resp \in FewToolResponses : DeliverTool(t, resp)
  \/ \E t \in Tasks : BeginHealth(t, "c1")
  \/ \E t \in Tasks, resp \in FewHealthResponses : DeliverHealth(t, resp)
  \/ Close("c1")

Spec == Init /\ [][Next]_vars

\* One caller of one client, given every response of the model.
NextCall ==
  \/ \E op \in ToolOps, path \in CallPaths : BeginTool(1, "c1", op, path)
  \/ SendPost(1)
  \/ \E resp \in ToolResponses : DeliverTool(1, resp)
  \/ BeginHealth(1, "c1")
  \/ \E resp \in HealthResponses : DeliverHealth(1, resp)
  \/ Close("c1")

SpecCall == Init /\ [][NextCall]_vars

----------------------------------------------------------------------------
(* The network apart from the callers.  What httpx was given has left the  *)
(* process; a response or a transport failure arrives for it some time     *)
(* later, and the event loop then resumes the coroutine that awaits it     *)
(* (the await of line 91 or 181).                                          *)

\* The tasks that call the client: two, so that their calls can overlap.
LiveTasks == {t \in Tasks : t <= 2}

\* Task t is suspended in the await of a request nothing has arrived for.
Suspended(t) == pc[t] = "awaiting" /\ inbox[call[t].n] = NoResponse

\* Task t is suspended in the await of a request whose response or failure
\* has arrived.
Ready(t) == pc[t] = "awaiting" /\ inbox[call[t].n] # NoResponse

\* What may arrive for the request task t awaits: a response that makes the
\* call return (the body {} for a tool call), or a refused connection.
ResponsesFor(t) ==
  IF call[t].op \in ToolOps
  THEN {HttpResponse(200, json_dumps(EmptyDict)), HttpFailure("ConnectError")}
  ELSE {HttpResponse(200, <<>>), HttpFailure("ConnectError")}

\* The paths the callers pass: a PDF, and a file that is refused.
LivePaths == {TestPdf, TestTxt}

\* The network delivers resp for the request task t awaits.
ResponseArrives(t, resp) ==
  /\ Suspended(t)
  /\ inbox' = [inbox EXCEPT ![call[t].n] = resp]
  /\ UNCHANGED <<fs, util, request_id, is_closed, posts, pc, call, last, ncalls,
                 overlapped, gets, config, ctor, scope, built, analyzer>>

\* The event loop resumes task t with what arrived: the await returns the
\* response or raises the failure, and the call runs to its end.
Resume(t) ==
  /\ Ready(t)
  /\ \/ DeliverTool(t, inbox[call[t].n])
     \/ DeliverHealth(t, inbox[call[t].n])

\* How many calls the callers make while the network is watched.
LiveCalls == 2

\* Concurrent callers of one open client, and the network.
NextLive ==
  \/ \E t \in LiveTasks, op \in ToolOps, path \in LivePaths :
       ncalls < LiveCalls /\ BeginTool(t, "c1", op, path)
  \/ \E t \in LiveTasks : SendPost(t)
  \/ \E t \in LiveTasks : ncalls < LiveCalls /\ BeginHealth(t, "c1")
  \/ \E t \in LiveTasks :
       \E resp \in ResponsesFor(t) : ResponseArrives(t, resp)
  \/ \E t \in LiveTasks : Resume(t)

\* A coroutine that has started runs on to its next await; the network
\* delivers a response or a failure for every request it was given; the
\* event loop runs its ready tasks in turn, so that a task that is ready
\* again and again is resumed.
Fairness ==
  \A t \in LiveTasks :
    /\ WF_vars(SendPost(t))
    /\ WF_vars(\E resp \in ResponsesFor(t) : ResponseArrives(t, resp))
    /\ SF_vars(Resume(t))

SpecLive == Init /\ [][NextLive]_vars /\ Fairness

----------------------------------------------------------------------------
(* PDFUtils on its own, on every disk of DiskLayouts.                      *)

InitFiles ==
  /\ fs \in DiskLayouts
  /\ util = NoUtil
  /\ built = NoBuilt
  /\ analyzer = NoAnalyzer
  /\ ClientInit

ValidatePath(path) ==
  /\ util' = [op |-> "validate_pdf_path", path |-> path,
              out |-> validate_pdf_path(fs, path)]
  /\ UNCHANGED <<fs, built, clientVars>>

ReadAsBase64(path) ==
  /\ util' = [op |-> "read_pdf_as_base64", path |-> path,
              out |-> read_pdf_as_base64(fs, path)]
  /\ UNCHANGED <<fs, built, clientVars>>

NextFiles ==
  \/ \E path \in InputPaths : ValidatePath(path)
  \/ \E path \in InputPaths : ReadAsBase64(path)

SpecFiles == InitFiles /\ [][NextFiles]_vars

----------------------------------------------------------------------------
(* The async with block: __aenter__, the calls of the block, __aexit__.    *)
(* The block is that of one caller, around the client c1 or around the     *)
(* PDFAnalyzerHTTP that owns it.  An exception raised by a call of the     *)
(* block leaves the block at once.                                         *)

\* What may stand after "async with".
ScopeOwners == {"MCPHTTPClient", "PDFAnalyzerHTTP"}

\* The mutant of aexit that closes only when the block ended normally.
aexit_on_success_only(owner, exc) ==
  [closes |-> exc.kind # "raise", suppresses |-> FALSE]

\* __aexit__ of either class: it awaits self.close(), which for the
\* analyzer awaits mcp_client.close(), and returns None, so that the
\* exception of the block, if any, is not suppressed.
aexit(owner, exc) == [closes |-> TRUE, suppresses |-> FALSE]

\* __aenter__ returns self.
EnterScope(owner) ==
  /\ scope.state = "none"
  /\ scope' = [owner |-> owner, state |-> "inside", exc |-> NoOutcome]
  /\ UNCHANGED <<fs, util, built, request_id, is_closed, posts, pc, call, last,
                 ncalls, overlapped, gets, config, ctor, analyzer, inbox>>

\* The block may go on: it was entered and no call of it has raised.
InBlock == scope.state = "inside" /\ last.out.kind # "raise"

\* The block is left, after its last statement or by the exception a call
\* raised: __aexit__ runs, and the exception goes on to the caller.
ExitScope ==
  /\ scope.state = "inside"
  /\ \A t \in Tasks : pc[t] = "idle"
  /\ LET exc == IF last.out.kind = "raise" THEN last.out ELSE NoOutcome
         exit == aexit(scope.owner, exc)
     IN /\ is_closed' = [is_closed EXCEPT !["c1"] = @ \/ exit.closes]
        /\ scope' = [scope EXCEPT !.state = "exited",
                                  !.exc = IF exit.suppresses THEN NoOutcome
                                          ELSE exc]
  /\ UNCHANGED <<fs, util, built, request_id, posts, pc, call, last, ncalls,
                 overlapped, gets, config, ctor, analyzer, inbox>>

NextScope ==
  \/ \E owner \in ScopeOwners : EnterScope(owner)
  \/ InBlock /\ \E op \in ToolOps, path \in CallPaths :
                  BeginTool(1, "c1", op, path)
  \/ InBlock /\ SendPost(1)
  \/ InBlock /\ \E resp \in FewToolResponses : DeliverTool(1, resp)
  \/ InBlock /\ BeginHealth(1, "c1")
  \/ InBlock /\ \E resp \in FewHealthResponses : DeliverHealth(1, resp)
  \/ InBlock /\ Close("c1")
  \/ ExitScope

SpecScope == Init /\ [][NextScope]_vars

----------------------------------------------------------------------------
(* One caller of two clients.                                              *)

NextTwo ==
  \/ \E c \in Clients, op \in ToolOps, path \in CallPaths :
       BeginTool(1, c, op, path)
  \/ SendPost(1)
  \/ \E resp \in FewToolResponses : DeliverTool(1, resp)
  \/ \E c \in Clients : BeginHealth(1, c)
  \/ \E resp \in FewHealthResponses : DeliverHealth(1, resp)
  \/ \E c \in Clients : Close(c)

SpecTwo == Init /\ [][NextTwo]_vars

----------------------------------------------------------------------------
(* PDFAnalyzerHTTP (pdf_analyzer.py): summarize_pdf and analyze_pdf, made  *)
(* by the tasks on the one analyzer that owns client c1.  A step runs the  *)
(* coroutine from one await that suspends to the next: the POST of         *)
(* extract_text, the POST of extract_metadata, agent.run.  The texts the   *)
(* server sends here hold one character in each token, so that the length  *)
(* of a text is the number of its tokens.                                  *)

\* The str of the given characters.
Chars(cs) == [i \in 1..Len(cs) |-> W(cs[i])]

\* Whether split() takes the character for whitespace.
IsSpace(tok) == tok \in {W(" "), W("\n"), W("\t")}

RECURSIVE str_split(_)
\* text.split(): the runs of characters that are no whitespace.
str_split(text) ==
  IF text = <<>> THEN <<>>
  ELSE IF IsSpace(Head(text)) THEN str_split(Tail(text))
  ELSE LET rest == str_split(Tail(text)) IN
    IF Len(text) > 1 /\ ~IsSpace(text[2])
    THEN <<<<Head(text)>> \o Head(rest)>> \o Tail(rest)
    ELSE <<<<Head(text)>>>> \o rest

\* len(value): defined for a str, a list and a dict.
py_len(v) ==
  CASE v.k = "str" -> [exc |-> "", n |-> Len(v.s)]
    [] v.k \in {"obj", "arr"} -> [exc |-> "", n |-> Len(v.m)]
    [] OTHER -> [exc |-> "TypeError", n |-> 0]

\* PDFAnalyzerHTTP.__init__: the agent is made when use_agent_for_summary
\* holds, and is None otherwise.
PDFAnalyzerHTTP_init(use_agent_for_summary) ==
  [use_agent |-> use_agent_for_summary, has_agent |-> use_agent_for_summary,
   job |-> [t \in Tasks |-> NoJob]]

\* The mutant of UsesAgent that asks the agent whatever the flag says.
UsesAgent_always(a) == TRUE

\* self.use_agent and self.agent
UsesAgent(a) == a.use_agent /\ a.has_agent

\* The prompts of lines 148 and 191: the text is formatted into them.
SummaryPrompt(text) ==
  <<W("Please provide a concise summary of this PDF content:\n\n")>>
  \o Format(text)
AnalysisPrompt(text) ==
  <<W("Provide a brief summary and key insights from this PDF content:\n\n")>>
  \o Format(text)

\* The mutant of analysis_result that counts the characters for words.
analysis_result_counts_characters(text, metadata) ==
  LET length == py_len(text) IN
    IF length.exc # "" THEN Raise(length.exc, <<>>)
    ELSE IF text.k # "str" THEN Raise("AttributeError", <<>>)
    ELSE Return(Obj(<<Member(Key("text"), text),
                      Member(Key("metadata"), metadata),
                      Member(Key("text_length"), Num(length.n)),
                      Member(Key("word_count"), Num(length.n))>>))

\* analyze_pdf, lines 180-185: the mapping made of the two extractions.
\* len(text) fails for a text that is None or a number, text.split() for
\* one that is no str.
analysis_result(text, metadata) ==
  LET length == py_len(text) IN
    IF length.exc # "" THEN Raise(length.exc, <<>>)
    ELSE IF text.k # "str" THEN Raise("AttributeError", <<>>)
    ELSE Return(Obj(<<Member(Key("text"), text),
                      Member(Key("metadata"), metadata),
                      Member(Key("text_length"), Num(length.n)),
                      Member(Key("word_count"), Num(Len(str_split(text.s))))>>))

\* Line 193: result["summary"] = summary_result.output
with_summary(result, output) == Obj(DictPut(result.m, Key("summary"), output))

\* MCPHTTPClient.extract_text / extract_metadata of client c1 up to the
\* await of the POST, in one piece: the file is validated and encoded, the
\* next id taken, the request built and given to httpx.  The call is
\* rejected at the validation, refused by a closed client, or posted.
ToolCallStart(tool, path) ==
  LET encoded == read_pdf_as_base64(fs, path)
      next == next_request_id(request_id["c1"])
      request == create_tool_call_request(
                   TextOf(tool),
                   Obj(<<Member(Key("fileContent"), Str(encoded.text))>>),
                   Num(next.returned))
  IN [status |-> IF encoded.exc # "" THEN "rejected"
                 ELSE IF is_closed["c1"] THEN "refused" ELSE "posted",
      out |-> IF encoded.exc # "" THEN Raise(encoded.exc, encoded.msg)
              ELSE IF is_closed["c1"] THEN Raise("RuntimeError", <<>>)
              ELSE NoOutcome,
      content |-> encoded.text,
      id |-> next.returned,
      stored |-> IF encoded.exc # "" THEN request_id["c1"] ELSE next.stored,
      request |-> request]

\* What the start r of a tool call of task t does to the client; prior is
\* the call that ended last before it.
ClientCallStarts(t, tool, path, r, prior) ==
  /\ ncalls < MaxCalls
  /\ ncalls' = ncalls + 1
  /\ request_id' = StoreId(request_id, "c1", r.stored)
  /\ posts' = IF r.status = "posted"
              THEN Append(posts, [client |-> "c1", n |-> ncalls + 1,
                                  url |-> config["c1"].mcp_endpoint,
                                  headers |-> config["c1"].headers,
                                  request |-> r.request])
              ELSE posts
  /\ pc' = [pc EXCEPT ![t] = IF r.status = "posted" THEN "awaiting" ELSE "idle"]
  /\ call' = [call EXCEPT ![t] =
                IF r.status = "posted"
                THEN [op |-> tool, client |-> "c1", path |-> path,
                      content |-> r.content, read |-> request_id["c1"],
                      id |-> r.id, n |-> ncalls + 1]
                ELSE NoCall]
  /\ last' = IF r.status = "posted" THEN prior
             ELSE Ended(tool, "c1", path, NoResponse,
                        IF r.status = "refused" THEN r.out ELSE NoOutcome,
                        r.out)
  /\ overlapped' =
       (overlapped \/ /\ r.status = "posted"
                      /\ \E u \in Tasks \ {t} :
                           /\ pc[u] = "awaiting"
                           /\ call[u].op \in ToolOps
                           /\ call[u].client = "c1")

\* What the end of a tool call of task t does to the client.
ClientCallEnds(t, ended) ==
  /\ last' = ended
  /\ pc' = [pc EXCEPT ![t] = "idle"]
  /\ call' = [call EXCEPT ![t] = NoCall]
  /\ UNCHANGED <<request_id, posts, ncalls, overlapped>>

\* The job of task t goes on as job, or has ended with out.
JobGoesOn(t, job) == analyzer' = [analyzer EXCEPT !.job[t] = job]
JobEnds(t, job, out) ==
  analyzer' = [analyzer EXCEPT !.job[t] = [job EXCEPT !.at = "idle", !.out = out]]

\* The ids of job after the start r of a tool call.
IdsWith(job, r) ==
  IF r.status = "rejected" THEN job.ids ELSE Append(job.ids, r.id)

\* A task that is in no call of the client and in no method of the
\* analyzer; the tasks being alike, the first such task makes the next call.
AnalyzerFree(t) == pc[t] = "idle" /\ analyzer.job[t].at = "idle"
FirstFree(t) == \A u \in Tasks : u < t => ~AnalyzerFree(u)

AnalyzerOps == {"summarize_pdf", "analyze_pdf"}

\* The tasks that use the analyzer: two, so that their calls can overlap.
AnalyzerTasks == {t \in Tasks : t <= 2}

\* summarize_pdf (line 142) and analyze_pdf (line 177) up to the POST of
\* extract_text.
StartAnalysis(t, op, path) ==
  /\ AnalyzerFree(t) /\ FirstFree(t) /\ CanRun(t)
  /\ LET r == ToolCallStart("extract_text", path)
         job == [NoJob EXCEPT !.op = op, !.path = path] IN
       /\ ClientCallStarts(t, "extract_text", path, r, last)
       /\ IF r.status = "posted"
          THEN JobGoesOn(t, [job EXCEPT !.at = "extract_text",
                                        !.ids = IdsWith(job, r)])
          ELSE JobEnds(t, [job EXCEPT !.text = r.out, !.ids = IdsWith(job, r)],
                       r.out)
  /\ UNCHANGED <<fs, util, is_closed, gets, config, ctor, scope, built,
                 inbox>>

\* The POST of extract_text completes.  An error ends the method.  With
\* the text, summarize_pdf returns it or runs the agent on it (lines
\* 145-153), and analyze_pdf goes on to the POST of extract_metadata (line
\* 178).
TextArrives(t, resp) ==
  /\ pc[t] = "awaiting" /\ analyzer.job[t].at = "extract_text" /\ CanRun(t)
  /\ LET tool == CallToolOutcome(resp)
         text == ExtractTextOutcome(tool)
         job == [analyzer.job[t] EXCEPT !.text = text]
         ended == Ended("extract_text", "c1", job.path, resp, tool, text)
     IN IF text.kind = "raise"
        THEN ClientCallEnds(t, ended) /\ JobEnds(t, job, text)
        ELSE IF job.op = "summarize_pdf"
        THEN /\ ClientCallEnds(t, ended)
             /\ IF UsesAgent(analyzer)
                THEN JobGoesOn(t, [job EXCEPT !.at = "agent", !.runs = @ + 1,
                                              !.prompt = SummaryPrompt(text.value)])
                ELSE JobEnds(t, job, Return(text.value))
        ELSE LET r == ToolCallStart("extract_metadata", job.path) IN
             /\ ClientCallStarts(t, "extract_metadata", job.path, r, ended)
             /\ IF r.status = "posted"
                THEN JobGoesOn(t, [job EXCEPT !.at = "extract_metadata",
                                              !.ids = IdsWith(job, r)])
                ELSE JobEnds(t, [job EXCEPT !.metadata = r.out,
                                            !.ids = IdsWith(job, r)], r.out)
  /\ UNCHANGED <<fs, util, is_closed, gets, config, ctor, scope, built,
                 inbox>>

\* The POST of extract_metadata completes: an error ends analyze_pdf; else
\* the mapping is made (lines 180-185), and returned or, with an agent,
\* kept until agent.run has answered (lines 188-193).
MetadataArrives(t, resp) ==
  /\ pc[t] = "awaiting" /\ analyzer.job[t].at = "extract_metadata" /\ CanRun(t)
  /\ LET tool == CallToolOutcome(resp)
         metadata == ExtractMetadataOutcome(tool)
         job == [analyzer.job[t] EXCEPT !.metadata = metadata]
         result == analysis_result(job.text.value, metadata.value)
     IN /\ ClientCallEnds(t, Ended("extract_metadata", "c1", job.path, resp,
                                   tool, metadata))
        /\ IF metadata.kind = "raise" THEN JobEnds(t, job, metadata)
           ELSE IF result.kind = "raise" THEN JobEnds(t, job, result)
           ELSE IF UsesAgent(analyzer)
           THEN JobGoesOn(t, [job EXCEPT !.at = "agent", !.runs = @ + 1,
                                         !.prompt = AnalysisPrompt(job.text.value)])
           ELSE JobEnds(t, job, result)
  /\ UNCHANGED <<fs, util, is_closed, gets, config, ctor, scope, built,
                 inbox>>

\* What agent.run may come back with: an output, or an error of the agent.
AgentReplies ==
  {Return(TextOf("A summary.")), Raise("UnexpectedModelBehavior", <<>>)}

\* agent.run completes: its output is the summary (line 150), or the
\* summary key of the mapping (line 193); its error ends the method.
AgentAnswers(t, reply) ==
  /\ analyzer.job[t].at = "agent" /\ CanRun(t)
  /\ LET job == analyzer.job[t] IN
       IF reply.kind = "raise" THEN JobEnds(t, job, reply)
       ELSE IF job.op = "summarize_pdf" THEN JobEnds(t, job, Return(reply.value))
       ELSE JobEnds(t, job,
                    Return(with_summary(
                             analysis_result(job.text.value,
                                             job.metadata.value).value,
                             reply.value)))
  /\ UNCHANGED <<fs, util, request_id, is_closed, posts, pc, call, last, ncalls,
                 overlapped, gets, config, ctor, scope, built, inbox>>

\* A text with two words, a payload that answers either tool with it, and
\* what the server answers the analyzer: that payload, a null text, a
\* server error.
TwoWords == Chars(<<"a", "b", " ", " ", "c">>)
TwoWordsPayload ==
  Obj(<<Member(Key("text"), Str(TwoWords)),
        Member(Key("title"), TextOf("Test PDF"))>>)
AnalyzerResponses ==
  {HttpResponse(200, json_dumps(Envelope(<<Member(Key("result"),
       Obj(<<Member(Key("content"),
                    Arr(<<Elem(TextItem(json_dumps(payload)))>>))>>))>>))) :
     payload \in {TwoWordsPayload, NullTextPayload}}
  \cup {HttpResponse(500, ErrorPage)}

AnalyzerPaths == {TestPdf, TestTxt}

InitAnalyzer ==
  /\ fs = ClientDisk
  /\ util = NoUtil
  /\ built = NoBuilt
  /\ ClientInit
  /\ \E use_agent \in BOOLEAN : analyzer = PDFAnalyzerHTTP_init(use_agent)

NextAnalyzer ==
  \/ \E t \in AnalyzerTasks, op \in AnalyzerOps, path \in AnalyzerPaths :
       StartAnalysis(t, op, path)
  \/ \E t \in AnalyzerTasks, resp \in AnalyzerResponses : TextArrives(t, resp)
  \/ \E t \in AnalyzerTasks, resp \in AnalyzerResponses :
       MetadataArrives(t, resp)
  \/ \E t \in AnalyzerTasks, reply \in AgentReplies : AgentAnswers(t, reply)
  \/ Close("c1")

SpecAnalyzer == InitAnalyzer /\ [][NextAnalyzer]_vars

----------------------------------------------------------------------------
(* One caller of a client whose server writes any id in its responses.     *)

\* What the server may write for the id: a number that is or is not the
\* id of the request, a str, null, or no id member at all.
ResponseIdMembers ==
  {<<Member(Key("id"), v)>> :
     v \in {Num(1), Num(2), Num(3), Num(7), TextOf("1"), None}}
  \cup {<<>>}

\* A JSON-RPC response with the given id member and the members after it.
EnvelopeWithId(id_member, members) ==
  Obj(<<Member(Key("jsonrpc"), TextOf("2.0"))>> \o id_member \o members)

\* What follows the id: the sample result, or the JSON-RPC error.
AnswerMembers ==
  {<<Member(Key("result"), SampleResult)>>,
   <<Member(Key("error"), InvalidRequest)>>}

IdResponses ==
  {HttpResponse(200, json_dumps(EnvelopeWithId(id_member, members))) :
     id_member \in ResponseIdMembers, members \in AnswerMembers}

NextIds ==
  \/ \E op \in ToolOps, path \in CallPaths : BeginTool(1, "c1", op, path)
  \/ SendPost(1)
  \/ \E resp \in IdResponses : DeliverTool(1, resp)

SpecIds == Init /\ [][NextIds]_vars

----------------------------------------------------------------------------
(* One caller of a client that was constructed with any of the arguments.  *)

InitConfig ==
  /\ fs = ClientDisk
  /\ util = NoUtil
  /\ built = NoBuilt
  /\ analyzer = NoAnalyzer
  /\ CallersInit
  /\ \E base_url \in BaseUrlArgs, api_key \in ApiKeyArgs :
       Constructed([TestArgs EXCEPT !["c1"] =
                      CtorArgs(base_url, api_key, DefaultTimeout,
                               DefaultReadTimeout)])

NextConfig ==
  \/ \E op \in ToolOps, path \in CallPaths : BeginTool(1, "c1", op, path)
  \/ SendPost(1)
  \/ \E resp \in FewToolResponses : DeliverTool(1, resp)
  \/ BeginHealth(1, "c1")
  \/ \E resp \in FewHealthResponses : DeliverHealth(1, resp)
  \/ Close("c1")

SpecConfig == InitConfig /\ [][NextConfig]_vars

----------------------------------------------------------------------------
(* MCPProtocol on its own.                                                 *)

\* The arguments the builders are tried on.
Methods ==
  {Str(PyStr("tools/call")), Str(PyStr("test/method")),
   Str(PyStr("no such method!")), Str(<<>>)}
NestedParams ==
  Obj(<<Member(Key("nested"),
               Obj(<<Member(Key("array"), Arr(<<Elem(Num(1)), Elem(Num(2))>>))>>))>>)
ParamValues ==
  {EmptyDict, Obj(<<Member(Key("key"), Str(PyStr("value")))>>), NestedParams}
ToolNames ==
  {Str(PyStr("extract_text")), Str(PyStr("extract_metadata")),
   Str(PyStr("test_tool"))}
ArgumentValues ==
  {EmptyDict,
   Obj(<<Member(Key("fileContent"), Str(PyStr("SGVsbG8gV29ybGQ=")))>>),
   Obj(<<Member(Key("fileContent"), Str(PyStr("cGRmIGNvbnRlbnQ="))),
         Member(Key("name"), Str(PyStr("shadow")))>>)}
RequestIds ==
  {Num(1), Num(123), Num(0), Str(PyStr("uuid-123")), Str(<<>>)}

InitProtocol ==
  /\ fs = ClientDisk
  /\ util = NoUtil
  /\ built = NoBuilt
  /\ analyzer = NoAnalyzer
  /\ ClientInit

\* A call of create_request; given tells whether request_id was passed.
CreateRequest(method, params, given, rid) ==
  /\ built' =
       [fn |-> "create_request", method |-> method, params |-> params,
        tool_name |-> None, arguments |-> None, given |-> given,
        request_id |-> IF given THEN rid ELSE None,
        out |-> create_request(method, params,
                               IF given THEN rid ELSE DefaultRequestId)]
  /\ UNCHANGED <<fs, util, clientVars>>

\* A call of create_tool_call_request.
CreateToolCallRequest(tool_name, arguments, given, rid) ==
  /\ built' =
       [fn |-> "create_tool_call_request", method |-> None, params |-> None,
        tool_name |-> tool_name, arguments |-> arguments, given |-> given,
        request_id |-> IF given THEN rid ELSE None,
        out |-> create_tool_call_request(
                  tool_name, arguments,
                  IF given THEN rid ELSE DefaultRequestId)]
  /\ UNCHANGED <<fs, util, clientVars>>

NextProtocol ==
  \/ \E method \in Methods, params \in ParamValues, rid \in RequestIds :
       CreateRequest(method, params, TRUE, rid)
  \/ \E method \in Methods, params \in ParamValues :
       CreateRequest(method, params, FALSE, None)
  \/ \E tool_name \in ToolNames, arguments \in ArgumentValues,
        rid \in RequestIds :
       CreateToolCallRequest(tool_name, arguments, TRUE, rid)
  \/ \E tool_name \in ToolNames, arguments \in ArgumentValues :
       CreateToolCallRequest(tool_name, arguments, FALSE, None)

SpecProtocol == InitProtocol /\ [][NextProtocol]_vars

----------------------------------------------------------------------------
(* Properties of the request ids (checked under Spec).                     *)

\* The tool calls of client c that are waiting for their response.
InFlight(c) ==
  {t \in Tasks : pc[t] = "awaiting" /\ call[t].op \in ToolOps /\ call[t].client = c}

\* C1: as long as the tool calls of a client are made one after the other,
\* the ids its POSTs carry are 1, 2, 3, ... in that order: the n-th POST
\* carries the integer n, whatever the mix of tools.
C1_SequentialIdsCountFromOne ==
  ~overlapped =>
    \A c \in Clients :
      PostedIds(c) = [j \in 1..Len(PostedIds(c)) |-> Num(j)]

\* C1, witness: three sequential calls were posted, of both tools.
C1_ThreeSequentialPosts ==
  /\ ~overlapped
  /\ Len(PostedIds("c1")) = 3
  /\ \A op \in ToolOps : \E j \in 1..Len(posts) :
       Lookup(Lookup(posts[j].request, Key("params")), Key("name")) = TextOf(op)

\* C2: tool calls of one client that are in flight at once never hold the
\* same request id, and no id is posted twice by one client.
C2_NoDuplicateIds ==
  \A c \in Clients :
    /\ \A t1, t2 \in InFlight(c) : t1 # t2 => call[t1].id # call[t2].id
    /\ \A j1, j2 \in 1..Len(PostedIds(c)) :
         j1 # j2 => PostedIds(c)[j1] # PostedIds(c)[j2]

\* C2, witness: two tool calls of one client are in flight at once.
C2_TwoCallsInFlight == overlapped /\ Cardinality(InFlight("c1")) >= 2

----------------------------------------------------------------------------
(* Properties of one call and its response (checked under SpecCall).       *)

\* A tool call ended that was given a response with a 2xx status.
ToolCallAnswered2xx ==
  /\ last.op \in ToolOps
  /\ last.resp.neterr = ""
  /\ last.resp.status \in 200..299

\* The body of a response whose result holds the content items.
ResultBody(items) ==
  json_dumps(Envelope(<<Member(Key("result"),
                               Obj(<<Member(Key("content"), Arr(items))>>))>>))

\* C3: when the server answers 2xx with no error key and a content whose
\* first item is of type "text" and carries the JSON text of a mapping, the
\* tool call returns that mapping, and extract_text returns exactly what
\* the mapping holds under "text", whatever other keys it has.
C3_FirstTextItemIsParsed ==
  \A items \in ContentLists, payload \in ObjectPayloads :
    ( /\ ToolCallAnswered2xx
      /\ items # <<>>
      /\ items[1].val = TextItem(json_dumps(payload))
      /\ last.resp.body = ResultBody(items) )
    => /\ last.tool = Return(payload)
       /\ (last.op = "extract_text" /\ HasKey(payload, Key("text")))
            => last.out = Return(Lookup(payload, Key("text")))
       /\ (last.op = "extract_text" /\ payload = SamplePayload)
            => last.out.value = TextOf("Sample PDF text")

\* C3, witness: extract_text was answered with the sample payload and
\* returned its text.
C3_SampleTextReturned ==
  /\ last.op = "extract_text"
  /\ last.resp =
       HttpResponse(200, ResultBody(<<Elem(TextItem(json_dumps(SamplePayload)))>>))
  /\ last.out = Return(TextOf("Sample PDF text"))

\* The bodies without an error key whose result has no content: no result
\* key, a result without a content key, an empty content.
NoContentBodies ==
  {json_dumps(Envelope(<<>>)),
   json_dumps(Envelope(<<Member(Key("result"), EmptyDict)>>)),
   ResultBody(<<>>)}

\* C4: when result.content is empty or absent, the result key itself
\* included, the tool call returns the empty mapping and raises nothing:
\* extract_text returns "" and extract_metadata returns {}.
C4_NoContentGivesEmpty ==
  (ToolCallAnswered2xx /\ last.resp.body \in NoContentBodies)
  => /\ last.tool = Return(EmptyDict)
     /\ last.op = "extract_text" => last.out = Return(Str(<<>>))
     /\ last.op = "extract_metadata" => last.out = Return(EmptyDict)

\* C4, witness: extract_text was answered with an empty content.
C4_EmptyContentAnswered ==
  /\ last.op = "extract_text"
  /\ last.resp = HttpResponse(200, ResultBody(<<>>))
  /\ last.out = Return(Str(<<>>))

\* The bodies that hold an error key, with or without a result.
ErrorBody(e, withResult) ==
  json_dumps(Envelope(
    (IF withResult THEN <<Member(Key("result"), SampleResult)>> ELSE <<>>)
    \o <<Member(Key("error"), e)>>))

\* C5: whenever the body of a 2xx response holds an error key, the tool call
\* fails with the protocol error (the ValueError "MCP error [code]:
\* message") that carries the server's code and message, and returns nothing.
C5_ErrorKeyRaisesProtocolError ==
  \A e \in ErrorValues, withResult \in BOOLEAN :
    (ToolCallAnswered2xx /\ last.resp.body = ErrorBody(e, withResult))
    => /\ last.tool.kind = "raise"
       /\ last.tool.exc = "ValueError"
       /\ Contains(last.tool.msg, <<W("MCP error [")>>)
       /\ (e.k = "obj" /\ HasKey(e, Key("code")))
            => Contains(last.tool.msg, Format(Lookup(e, Key("code"))))
       /\ (e.k = "obj" /\ HasKey(e, Key("message")))
            => Contains(last.tool.msg, Format(Lookup(e, Key("message"))))
       /\ last.out = last.tool

\* C6: for every status that is not a 2xx, the tool call fails with the
\* transport error httpx.HTTPStatusError, whatever the body holds: a
\* result, a JSON-RPC error, or no JSON at all.
C6_Non2xxIsTransportError ==
  ( /\ last.op \in ToolOps
    /\ last.resp.neterr = ""
    /\ last.resp.status >= 100
    /\ last.resp.status \notin 200..299 )
  => /\ last.tool = Raise("HTTPStatusError", <<>>)
     /\ IsInstance(last.tool.exc, "HTTPError")
     /\ last.out = last.tool

\* C6, witness: a 500 whose body is a well-formed result ended in the
\* transport error.
C6_ServerErrorWithResultBody ==
  /\ last.op \in ToolOps
  /\ last.resp =
       HttpResponse(500, ResultBody(<<Elem(TextItem(json_dumps(SamplePayload)))>>))
  /\ last.tool.exc = "HTTPStatusError"

\* C7 as claimed: health_check never raises, and returns true exactly when
\* the GET was answered with status 200.
C7_HealthCheckNeverRaises ==
  last.op = "health_check"
  => /\ last.out.kind = "return"
     /\ last.out.value =
          (IF last.resp.neterr = "" /\ last.resp.status = 200
           THEN PyTrue ELSE PyFalse)

\* C7, amended: once the GET is made, health_check returns true exactly
\* when the status is 200 and false for every other status and for every
\* network failure; the only error it lets through is the RuntimeError of
\* a client that was closed before the call, which is no httpx.HTTPError.
C7_HealthCheckOnlyCatchesHttpErrors ==
  last.op = "health_check"
  => IF last.out.kind = "raise"
     THEN /\ last.out.exc = "RuntimeError"
          /\ ~IsInstance(last.out.exc, "HTTPError")
          /\ is_closed[last.client]
          /\ last.resp = NoResponse
     ELSE last.out.value =
            (IF last.resp.neterr = "" /\ last.resp.status = 200
             THEN PyTrue ELSE PyFalse)

\* C7, witness: the GET failed at the network level and health_check
\* returned false.
C7_ConnectionErrorGivesFalse ==
  /\ last.op = "health_check"
  /\ last.resp = HttpFailure("ConnectError")
  /\ last.out = Return(PyFalse)

----------------------------------------------------------------------------
(* Properties of PDFUtils (checked under SpecFiles).                       *)

\* What the path p names on the disk, told from the directory entries: the
\* entry itself, or the entry a symbolic link points at.
Named(p) ==
  LET e == fs[Absolute(p)] IN IF e.kind = "link" THEN fs[e.target] ELSE e

NamesNothing(p) == Named(p).kind = "none"

HasPdfSuffix(p) == Lower(Suffix(p)) = PdfSuffix

\* C8: validate_pdf_path checks existence before extension: a path that
\* names nothing fails with FileNotFoundError whatever its extension, and
\* a path that names something but whose lower-cased suffix is not ".pdf"
\* fails with the ValueError "File is not a PDF".
C8_ExistenceBeforeExtension ==
  util.op = "validate_pdf_path"
  => /\ NamesNothing(util.path)
          => /\ util.out.exc = "FileNotFoundError"
             /\ util.out.msg = <<W("PDF file not found: ")>> \o PathText(util.path)
     /\ (~NamesNothing(util.path) /\ ~HasPdfSuffix(util.path))
          => /\ util.out.exc = "ValueError"
             /\ util.out.msg = <<W("File is not a PDF: ")>> \o PathText(util.path)

\* C8, witness: a missing path with no suffix at all was reported as not
\* found.
C8_MissingWithoutSuffix ==
  /\ util.op = "validate_pdf_path"
  /\ util.path = NoExt
  /\ fs[NoExt].kind = "none"
  /\ util.out.exc = "FileNotFoundError"

\* C9 as claimed: for an existing path whose suffix is ".pdf" in any case,
\* validate_pdf_path returns an absolute existing path whose suffix is the
\* suffix of the path it was given, case included.
C9_SuffixAlwaysPreserved ==
  ( /\ util.op = "validate_pdf_path"
    /\ ~NamesNothing(util.path)
    /\ HasPdfSuffix(util.path) )
  => /\ util.out.exc = ""
     /\ IsAbsolute(util.out.path)
     /\ fs[util.out.path].kind \in {"file", "dir"}
     /\ Suffix(util.out.path) = Suffix(util.path)

\* C9, amended: for an existing path whose suffix is ".pdf" in any case,
\* validate_pdf_path returns the resolved path, absolute and existing; the
\* suffix is the one it was given, case included, when the path is not a
\* symbolic link, and the suffix of the link's target when it is; the
\* bytes of the file never change the outcome.
C9_ResolvedPathReturned ==
  ( /\ util.op = "validate_pdf_path"
    /\ ~NamesNothing(util.path)
    /\ HasPdfSuffix(util.path) )
  => LET given == Absolute(util.path) IN
     /\ util.out.exc = ""
     /\ IsAbsolute(util.out.path)
     /\ fs[util.out.path].kind \in {"file", "dir"}
     /\ fs[given].kind # "link"
          => /\ util.out.path = given
             /\ Suffix(util.out.path) = Suffix(util.path)
     /\ fs[given].kind = "link"
          => /\ util.out.path = fs[given].target
             /\ Suffix(util.out.path) = Suffix(fs[given].target)
     /\ fs[util.out.path].kind = "file"
          => \A data \in Contents :
               validate_pdf_path([fs EXCEPT ![util.out.path] = File(data)],
                                 util.path) = util.out

\* C9, witness: a regular file named test.PDF was accepted and the path
\* returned still ends in ".PDF".
C9_UpperCaseSuffixKept ==
  /\ util.op = "validate_pdf_path"
  /\ util.path = TestUpperPdf
  /\ fs[TestUpperPdf].kind = "file"
  /\ util.out.exc = ""
  /\ Suffix(util.out.path) = <<".", "P", "D", "F">>

\* C10: read_pdf_as_base64 is a round trip: for a path with a ".pdf"
\* suffix that names a regular file, decoding the text it returns gives
\* back exactly the bytes of the file, empty files included; for a missing
\* path and for a path without the suffix it fails as validate_pdf_path
\* does and returns no text.
C10_Base64RoundTrip ==
  util.op = "read_pdf_as_base64"
  => /\ (HasPdfSuffix(util.path) /\ Named(util.path).kind = "file")
          => /\ util.out.exc = ""
             /\ b64decode(util.out.text) = Named(util.path).data
     /\ NamesNothing(util.path)
          => /\ util.out.exc = "FileNotFoundError"
             /\ util.out.text = <<>>
             /\ util.out = validate_pdf_path(fs, util.path)
     /\ (~NamesNothing(util.path) /\ ~HasPdfSuffix(util.path))
          => /\ util.out.exc = "ValueError"
             /\ util.out.text = <<>>
             /\ util.out = validate_pdf_path(fs, util.path)

\* C10, witness: a file whose length is not a multiple of three, so that
\* its encoding is padded, was read and decodes to its bytes.
C10_PaddedFileRead ==
  /\ util.op = "read_pdf_as_base64"
  /\ util.out.exc = ""
  /\ Len(Named(util.path).data) % 3 = 1
  /\ Len(util.out.text) = 4
  /\ b64decode(util.out.text) = Named(util.path).data

----------------------------------------------------------------------------
(* Properties of MCPProtocol (checked under SpecProtocol).                 *)

\* The id a built request must carry: the one passed, 1 when none was.
ExpectedId == IF built.given THEN built.request_id ELSE Num(1)

\* The keys of a dict, in order.
Keys(d) == [j \in 1..Len(d.m) |-> d.m[j].key]

\* C11: create_tool_call_request returns exactly {jsonrpc: "2.0", id,
\* method: "tools/call", params: {name, arguments}}, which is what
\* create_request gives for that method and those params; a request of
\* either builder has jsonrpc "2.0", the method and params it was given,
\* unchecked, and the id it was given, int or str, or 1 when none was.
C11_BuildersMakeTheEnvelope ==
  /\ built.fn = "create_tool_call_request"
       => LET params == Obj(<<Member(Key("name"), built.tool_name),
                              Member(Key("arguments"), built.arguments)>>)
          IN /\ built.out =
                  Obj(<<Member(Key("jsonrpc"), Str(PyStr("2.0"))),
                        Member(Key("id"), ExpectedId),
                        Member(Key("method"), Str(PyStr("tools/call"))),
                        Member(Key("params"), params)>>)
             /\ built.out =
                  create_request(Str(PyStr("tools/call")), params, ExpectedId)
  /\ built.fn = "create_request"
       => /\ Lookup(built.out, Key("method")) = built.method
          /\ Lookup(built.out, Key("params")) = built.params
  /\ built.fn # ""
       => /\ Keys(built.out) =
               <<Key("jsonrpc"), Key("id"), Key("method"), Key("params")>>
          /\ Lookup(built.out, Key("jsonrpc")) = Str(PyStr("2.0"))
          /\ Lookup(built.out, Key("id")) = ExpectedId

\* C11, witness: a tool call request was built without an id, for arguments
\* that hold a key "name" of their own, and carries id 1.
C11_ToolCallBuiltWithDefaultId ==
  /\ built.fn = "create_tool_call_request"
  /\ ~built.given
  /\ HasKey(built.arguments, Key("name"))
  /\ Lookup(built.out, Key("id")) = Num(1)
  /\ Lookup(Lookup(built.out, Key("params")), Key("arguments")) = built.arguments

----------------------------------------------------------------------------
(* Properties of the configuration (checked under SpecConfig).             *)

\* "/mcp", and the URL of the tests with it.
McpSuffix == <<P("/"), W("mcp")>>
LocalMcpEndpoint == LocalUrl \o McpSuffix

\* The str text is stem followed by nothing but "/" characters.
IsStemPlusSlashes(text, stem) ==
  /\ Len(text) >= Len(stem)
  /\ SubSeq(text, 1, Len(stem)) = stem
  /\ \A j \in (Len(stem) + 1)..Len(text) : text[j] = P("/")

RequestHeaders ==
  {[client |-> posts[j].client, headers |-> posts[j].headers] :
     j \in 1..Len(posts)}
  \cup {[client |-> gets[j].client, headers |-> gets[j].headers] :
          j \in 1..Len(gets)}

\* C19: every request of a client, POST or GET, carries Content-Type:
\* application/json and Accept: application/json, text/event-stream, and
\* carries Authorization: Bearer <key> exactly when the client was
\* constructed with an API key (None and the empty string being no key).
C19_FixedHeadersOnEveryRequest ==
  \A r \in RequestHeaders :
    LET api_key == ctor[r.client].api_key
        supplied == api_key.k = "str" /\ api_key.s # <<>>
    IN /\ r.headers.k = "obj"
       /\ HasKey(r.headers, Key("Content-Type"))
       /\ Lookup(r.headers, Key("Content-Type")) = Str(PyStr("application/json"))
       /\ HasKey(r.headers, Key("Accept"))
       /\ Lookup(r.headers, Key("Accept")) =
            Str(PyStr("application/json, text/event-stream"))
       /\ HasKey(r.headers, Key("Authorization")) <=> supplied
       /\ supplied => Lookup(r.headers, Key("Authorization")) =
                        Str(<<W("Bearer ")>> \o api_key.s)
       /\ Len(r.headers.m) = IF supplied THEN 3 ELSE 2

\* C19, witness: a client with the key "secret" sent a POST and a GET with
\* "Bearer secret".
C19_BearerOnPostAndGet ==
  /\ ctor["c1"].api_key = SecretKey
  /\ \E j \in 1..Len(posts) :
       /\ posts[j].client = "c1"
       /\ Lookup(posts[j].headers, Key("Authorization")) =
            Str(<<W("Bearer "), W("secret")>>)
  /\ \E j \in 1..Len(gets) :
       /\ gets[j].client = "c1"
       /\ HasKey(gets[j].headers, Key("Authorization"))

----------------------------------------------------------------------------
(* More properties of one call and its response (checked under SpecCall).  *)

\* C13: whenever extract_text returns, what it returns is a str, never
\* None: the "text" entry of the parsed tool result, or "" without one.
C13_ExtractTextReturnsAString ==
  (last.op = "extract_text" /\ last.out.kind = "return")
  => /\ last.out.value.k = "str"
     /\ last.out.value # None

\* The POSTs made for the call numbered n.
PostsOf(n) == SelectSeq(posts, LAMBDA post : post.n = n)

\* C14: extract_metadata calls the tool "extract_metadata" with the
\* arguments {fileContent: <base64 of the file>} and nothing else, and
\* returns the JSON value of the first text item as it is, every key kept.
C14_MetadataReturnedUnmodified ==
  /\ \A t \in Tasks :
       (pc[t] = "awaiting" /\ call[t].op = "extract_metadata")
       => LET sent == PostsOf(call[t].n)
              params == Lookup(sent[1].request, Key("params"))
              arguments == Lookup(params, Key("arguments"))
          IN /\ Len(sent) = 1
             /\ Lookup(sent[1].request, Key("method")) = Str(PyStr("tools/call"))
             /\ Keys(params) = <<Key("name"), Key("arguments")>>
             /\ Lookup(params, Key("name")) = Str(PyStr("extract_metadata"))
             /\ Keys(arguments) = <<Key("fileContent")>>
             /\ b64decode(Lookup(arguments, Key("fileContent")).s) =
                  fs[call[t].path].data
  /\ \A payload \in ObjectPayloads \cup {ListPayload} :
       ( /\ last.op = "extract_metadata"
         /\ ToolCallAnswered2xx
         /\ last.resp.body = ResultBody(<<Elem(TextItem(json_dumps(payload)))>>) )
       => last.out = Return(payload)

\* C14, witness: extract_metadata was answered with the metadata of the
\* tests and returned it, author included.
C14_MetadataOfTheTestsReturned ==
  /\ last.op = "extract_metadata"
  /\ last.out = Return(MetadataPayload)
  /\ Lookup(last.out.value, Key("author")) = TextOf("Test Author")
  /\ \E j \in 1..Len(posts) :
       Lookup(Lookup(posts[j].request, Key("params")), Key("name"))
         = TextOf("extract_metadata")

\* The type of a content item that is an object, None when it has none.
TypeOf(item) == DictGet(item, Key("type"), None)

\* C15: only the first item of result.content is used: when its type is
\* not "text" the tool call returns {} and raises nothing, even if a later
\* item is of type "text"; when it is a text item, the call ends as it
\* would were that item the only one.
C15_OnlyFirstItemConsumed ==
  \A items \in ContentLists :
    ( /\ ToolCallAnswered2xx
      /\ items # <<>>
      /\ last.resp.body = ResultBody(items) )
    => /\ (items[1].val.k = "obj" /\ TypeOf(items[1].val) # TextOf("text"))
            => last.tool = Return(EmptyDict)
       /\ last.tool =
            CallToolOutcome(HttpResponse(last.resp.status,
                                         ResultBody(<<items[1]>>)))
       /\ \A payload \in ObjectPayloads :
            items[1].val = TextItem(json_dumps(payload))
            => last.tool = Return(payload)

\* C15, witness: an image item followed by a text item gave {}.
C15_ImageBeforeTextGivesEmpty ==
  /\ last.op \in ToolOps
  /\ last.resp =
       HttpResponse(200, ResultBody(<<Elem(ImageItem),
                                      Elem(TextItem(json_dumps(SamplePayload)))>>))
  /\ last.tool = Return(EmptyDict)

\* C20: error is checked before result: a 2xx body that holds both an
\* error and a result never gives the result back, and for an error
\* object the call fails with the ValueError "MCP error [...]".
C20_ErrorCheckedBeforeResult ==
  \A e \in ErrorValues :
    (ToolCallAnswered2xx /\ last.resp.body = ErrorBody(e, TRUE))
    => /\ last.tool.kind = "raise"
       /\ last.out.kind = "raise"
       /\ e.k = "obj"
            => /\ last.tool.exc = "ValueError"
               /\ Contains(last.tool.msg, <<W("MCP error [")>>)
               /\ last.out = last.tool

\* C20, witness: a body with the error of the tests and a well-formed
\* result ended in the protocol error.
C20_ErrorWinsOverResult ==
  /\ last.op \in ToolOps
  /\ last.resp = HttpResponse(200, ErrorBody(InvalidRequest, TRUE))
  /\ last.tool.exc = "ValueError"
  /\ Contains(last.tool.msg, PyStr("Invalid request"))

\* The GETs made for the call numbered n.
GetsOf(n) == SelectSeq(gets, LAMBDA get : get.n = n)

\* C16: a call of extract_text, extract_metadata or health_check gives
\* httpx at most one request, whether it succeeds or fails: no call has
\* two requests to its number, and the requests made are never more than
\* the calls started.
C16_AtMostOneRequestPerCall ==
  /\ \A n \in 1..ncalls : Len(PostsOf(n)) + Len(GetsOf(n)) <= 1
  /\ \A j \in 1..Len(posts) : posts[j].n \in 1..ncalls
  /\ \A j \in 1..Len(gets) : gets[j].n \in 1..ncalls
  /\ Len(posts) + Len(gets) <= ncalls

\* C16, witness: a tool call that was answered 500 has ended in the
\* transport error after its one POST, and a later call has made its own.
C16_FailedCallMadeOneRequest ==
  /\ last.op \in ToolOps
  /\ last.resp.status = 500
  /\ last.out.exc = "HTTPStatusError"
  /\ pc[1] = "idle"
  /\ ncalls >= 2
  /\ Len(PostsOf(ncalls)) = 1
  /\ Len(PostsOf(ncalls - 1)) + Len(GetsOf(ncalls - 1)) = 1

----------------------------------------------------------------------------
(* Properties of the async with block (checked under SpecScope).           *)

\* C17: once the async with block over the client, or over the analyzer
\* that owns it, is left, normally or by an exception of a call inside,
\* the httpx client is closed, and the exception, if there was one, is the
\* one the caller receives.
C17_ClosedOnEveryExit ==
  scope.state = "exited"
  => /\ is_closed["c1"]
     /\ last.out.kind = "raise" => scope.exc = last.out
     /\ last.out.kind # "raise" => scope.exc = NoOutcome

\* C17, witness: a block over the analyzer was left by the transport error
\* of a call, the client is closed and the caller has the error.
C17_LeftByAnException ==
  /\ scope.state = "exited"
  /\ scope.owner = "PDFAnalyzerHTTP"
  /\ last.resp.status = 500
  /\ scope.exc.exc = "HTTPStatusError"
  /\ is_closed["c1"]

----------------------------------------------------------------------------
(* Properties of two clients (checked under SpecTwo).                      *)

\* The step is one of a call on client c, or closes it.
ActsOn(c) ==
  \/ \E t \in Tasks :
       /\ call'[t] # call[t] \/ pc'[t] # pc[t]
       /\ c \in {call[t].client, call'[t].client}
  \/ last' # last /\ last'.client = c
  \/ is_closed'[c] # is_closed[c]

\* The counter, the configuration and the open or closed state of client
\* d are left as they are.
Untouched(d) ==
  /\ request_id'[d] = request_id[d]
  /\ is_closed'[d] = is_closed[d]
  /\ config'[d] = config[d]
  /\ ctor'[d] = ctor[d]

\* C18: the clients share no state: the first POST of each client carries
\* id 1 and its ids never exceed its own counter, and a step of a call on
\* one client, or its close, leaves the counter, the configuration and the
\* open or closed state of every other client unchanged.
C18_NoStateSharedBetweenClients ==
  /\ [](\A c \in Clients :
          /\ PostedIds(c) # <<>> => PostedIds(c)[1] = Num(1)
          /\ \A j \in 1..Len(PostedIds(c)) : PostedIds(c)[j].i <= request_id[c])
  /\ [][\A c \in Clients :
          ActsOn(c) => \A d \in Clients \ {c} : Untouched(d)]_vars

\* C18, witness: c1 has made two tool calls and was closed; c2 is open and
\* its only POST carries id 1.
C18_CountersApart ==
  /\ request_id["c1"] = 2
  /\ is_closed["c1"]
  /\ request_id["c2"] = 1
  /\ ~is_closed["c2"]
  /\ PostedIds("c2") = <<Num(1)>>

----------------------------------------------------------------------------
(* Properties of the failures of a call (checked under SpecCall).          *)

\* The ended call e was a tool call that was answered 2xx with the JSON
\* text of the value v.
Answered(e, v) ==
  /\ e.op \in ToolOps
  /\ e.resp.neterr = ""
  /\ e.resp.status \in 200..299
  /\ e.resp.body = json_dumps(v)

\* The causes of a failure, told from what the call was given.  A JSON-RPC
\* error: the body holds an error object.
IsProtocolFailure(e) ==
  \E v \in RpcValues :
    /\ Answered(e, v)
    /\ v.k = "obj" /\ HasKey(v, Key("error"))
    /\ Lookup(v, Key("error")).k = "obj"
\* The file exists and its suffix is not .pdf.
IsInvalidFormatFailure(e) ==
  /\ e.op \in ToolOps
  /\ e.out.kind = "raise"
  /\ e.resp = NoResponse /\ e.tool = NoOutcome
  /\ Exists(fs, e.path)
  /\ Lower(Suffix(e.path)) # PdfSuffix
\* The file does not exist.
IsNotFoundFailure(e) ==
  /\ e.op \in ToolOps
  /\ e.out.kind = "raise"
  /\ e.resp = NoResponse /\ e.tool = NoOutcome
  /\ ~Exists(fs, e.path)
\* The text of the first content item is no JSON.
IsParseFailure(e) ==
  \E items \in ContentLists :
    /\ items # <<>>
    /\ items[1].val \in {TextItem(TruncatedText), TextItem(PlainText)}
    /\ Answered(e, Envelope(<<Member(Key("result"),
                                     Obj(<<Member(Key("content"), Arr(items))>>))>>))
\* No response, or one whose status is no 2xx.
IsTransportFailure(e) ==
  /\ e.op \in ToolOps
  /\ \/ e.resp.neterr # ""
     \/ e.resp.status >= 100 /\ e.resp.status \notin 200..299

\* C21 as claimed: whenever a call that failed with a JSON-RPC error and a
\* call that failed for being given a non-.pdf file, for a content text
\* that is no JSON or for a transport failure follow one another, the
\* classes of the two errors differ.
C21_ProtocolErrorKindIsDistinct ==
  [][\A a \in {last}, b \in {last'} :
       ( /\ a.out.kind = "raise" /\ b.out.kind = "raise"
         /\ \/ IsProtocolFailure(a) /\ \/ IsInvalidFormatFailure(b)
                                       \/ IsParseFailure(b)
                                       \/ IsTransportFailure(b)
            \/ IsProtocolFailure(b) /\ \/ IsInvalidFormatFailure(a)
                                       \/ IsParseFailure(a)
                                       \/ IsTransportFailure(a) )
       => a.out.exc # b.out.exc]_vars

\* C21, amended: a JSON-RPC error object reaches the caller as a ValueError
\* whose message starts with "MCP error [".  That is also the class of the
\* invalid-format error, whose message starts with "File is not a PDF: ",
\* and a base class of the parse error (json.JSONDecodeError); the classes
\* of the transport errors (httpx.HTTPError) and of the not-found error
\* (FileNotFoundError) are apart from it.
C21_ProtocolErrorIsAValueError ==
  /\ IsProtocolFailure(last)
       => /\ last.out.kind = "raise"
          /\ last.out.exc = "ValueError"
          /\ last.out.msg[1] = W("MCP error [")
  /\ IsInvalidFormatFailure(last)
       => /\ last.out.exc = "ValueError"
          /\ last.out.msg[1] = W("File is not a PDF: ")
          /\ ~Contains(last.out.msg, <<W("MCP error [")>>)
  /\ IsParseFailure(last)
       => /\ last.out.kind = "raise"
          /\ last.out.exc = "JSONDecodeError"
          /\ IsInstance(last.out.exc, "ValueError")
  /\ IsTransportFailure(last)
       => /\ last.out.kind = "raise"
          /\ IsInstance(last.out.exc, "HTTPError")
          /\ ~IsInstance(last.out.exc, "ValueError")
          /\ ~IsInstance("ValueError", last.out.exc)
  /\ IsNotFoundFailure(last)
       => /\ last.out.exc = "FileNotFoundError"
          /\ ~IsInstance(last.out.exc, "ValueError")
          /\ ~IsInstance("ValueError", last.out.exc)

\* C21, witness: a call ended with a JSON-RPC error, in the class that
\* validate_pdf_path gives the invalid-format error of test.txt.
C21_SameClassAsInvalidFormat ==
  /\ IsProtocolFailure(last)
  /\ last.resp.body = ErrorBody(InvalidRequest, FALSE)
  /\ last.out.exc = validate_pdf_path(fs, TestTxt).exc
  /\ last.out.exc = "ValueError"

----------------------------------------------------------------------------
(* Properties of the response id (checked under SpecIds).                  *)

\* The id of the request of the tool call that ended last, when the caller
\* has not begun another call since.
SentId == Lookup(posts[Len(posts)].request, Key("id"))

\* C23: the client never looks at the id of the response: whatever the id
\* member is, the id of the request, another number, a str, null or
\* absent, a result is returned and a JSON-RPC error is raised as it is.
C23_ResponseIdIsNotVerified ==
  \A id_member \in ResponseIdMembers :
    /\ ( /\ pc[1] = "idle"
         /\ Answered(last, EnvelopeWithId(id_member,
                                          <<Member(Key("result"), SampleResult)>>)) )
       => /\ last.tool = Return(SamplePayload)
          /\ last.op = "extract_text" => last.out = Return(TextOf("Sample PDF text"))
          /\ last.op = "extract_metadata" => last.out = Return(SamplePayload)
    /\ ( /\ pc[1] = "idle"
         /\ Answered(last, EnvelopeWithId(id_member,
                                          <<Member(Key("error"), InvalidRequest)>>)) )
       => /\ last.tool.exc = "ValueError"
          /\ last.out = last.tool

\* C23, witness: the third request, with id 3, was answered with id 1 and
\* its result was returned.
C23_IdOneReturnedForRequestThree ==
  /\ pc[1] = "idle"
  /\ Len(posts) = 3
  /\ SentId = Num(3)
  /\ Answered(last, EnvelopeWithId(<<Member(Key("id"), Num(1))>>,
                                   <<Member(Key("result"), SampleResult)>>))
  /\ last.out.kind = "return"

----------------------------------------------------------------------------
(* More properties of the configuration (checked under SpecConfig).        *)

\* C24: whatever calls of extract_text, extract_metadata, health_check and
\* close were made, and however they ended, base_url, mcp_endpoint, the
\* headers and the timeouts of every client are the ones __init__ made of
\* its arguments.
C24_ConfigurationIsImmutable ==
  \A c \in Clients :
    /\ config[c] = MCPHTTPClient_init(ctor[c].base_url, ctor[c].api_key,
                                      ctor[c].timeout, ctor[c].read_timeout)
    /\ \A j \in 1..Len(posts) :
         posts[j].client = c
         => /\ posts[j].url = config[c].mcp_endpoint
            /\ posts[j].headers = config[c].headers

\* C24, witness: a client built with an API key was used for a call that
\* failed and was closed, and its headers still carry the key.
C24_KeptAfterFailureAndClose ==
  /\ ctor["c1"].api_key = SecretKey
  /\ ncalls = MaxCalls
  /\ posts # <<>>
  /\ last.out.kind = "raise"
  /\ is_closed["c1"]
  /\ HasKey(config["c1"].headers, Key("Authorization"))

----------------------------------------------------------------------------
(* More properties of the failures of a call (checked under SpecCall).     *)

\* C25: when the first content item is of type "text" and its text is no
\* JSON, the tool call raises the parse error json.JSONDecodeError and the
\* public method lets it through: nothing is returned, neither {} nor "",
\* and the call made one POST and no second one.
C25_ParseErrorPropagates ==
  IsParseFailure(last)
  => /\ last.tool = Raise("JSONDecodeError", <<>>)
     /\ last.out = last.tool
     /\ last.out.kind # "return"
     /\ pc[1] = "idle"
          => Len(PostsOf(posts[Len(posts)].n)) = 1

\* C25, witness: extract_text was answered with a text item that holds
\* plain text, and raised the parse error after its one POST.
C25_PlainTextRaised ==
  /\ last.op = "extract_text"
  /\ last.resp = HttpResponse(200, ResultBody(<<Elem(TextItem(PlainText))>>))
  /\ last.out.exc = "JSONDecodeError"
  /\ pc[1] = "idle"
  /\ Len(posts) = 1

\* The step is a call of extract_text or extract_metadata that ended at the
\* validation of its path.
RejectedAtValidation ==
  /\ ncalls' = ncalls + 1
  /\ pc' = pc
  /\ IsInvalidFormatFailure(last') \/ IsNotFoundFailure(last')

\* C26: a call of extract_text or extract_metadata with a missing path or
\* a non-.pdf path raises FileNotFoundError or ValueError in the very step
\* it is made: no POST and no GET is given to httpx, no envelope is built
\* and the request-id counter of no client moves; and no call whose path
\* fails the validation ever gets as far as the request.
C26_ValidationBeforeNetwork ==
  /\ [](\A t \in Tasks :
          call[t].op \in ToolOps => validate_pdf_path(fs, call[t].path).exc = "")
  /\ [][RejectedAtValidation
        => /\ posts' = posts
           /\ gets' = gets
           /\ request_id' = request_id
           /\ built' = built
           /\ last'.out.exc \in {"FileNotFoundError", "ValueError"}
           /\ last'.resp = NoResponse]_vars

\* C26, witness: a missing path and a text file were rejected, and no
\* request was made and no id issued.
C26_RejectedWithoutRequest ==
  /\ ncalls = 2
  /\ IsInvalidFormatFailure(last)
  /\ last.path = TestTxt
  /\ posts = <<>> /\ gets = <<>>
  /\ request_id["c1"] = 0

----------------------------------------------------------------------------
(* More properties of the request ids (checked under Spec).                *)

\* The step is one in which a tool call of client c gives its POST to
\* httpx, which sends it or, the client being closed, refuses it.
PostAttempt(c) ==
  \E t \in Tasks :
    /\ pc[t] = "running" /\ pc'[t] # "running"
    /\ call[t].client = c

\* C27: the request-id counter of a client counts the POSTs it has
\* attempted: it starts at 0, it advances by one in the step a tool call
\* that passed the validation gives its POST to httpx, and in no other
\* step: not when a call fails afterwards, not in health_check or close,
\* not in a call rejected at validation.  Until the client is closed every
\* attempt is a POST made, and the counter is their number.
C27_CounterCountsPostAttempts ==
  /\ [](\A c \in Clients :
          /\ request_id[c] >= Len(PostedIds(c))
          /\ ~is_closed[c] => request_id[c] = Len(PostedIds(c)))
  /\ [][\A c \in Clients :
          request_id'[c] = request_id[c] + (IF PostAttempt(c) THEN 1 ELSE 0)]_vars

\* C27, witness: three calls were begun; two made a POST, the last of
\* them failed with a transport error, and the counter stands at 2.
C27_FailedCallKeptItsId ==
  /\ ncalls = 3
  /\ \A t \in Tasks : pc[t] = "idle"
  /\ Len(posts) = 2
  /\ last.out.exc = "HTTPStatusError"
  /\ request_id["c1"] = 2

----------------------------------------------------------------------------
(* The error taxonomy (checked under SpecCall).                            *)

\* The classes of the five kinds of error: not-found, invalid-format and
\* protocol (both ValueError), parse, transport.
InTaxonomy(cls) ==
  \/ cls \in {"FileNotFoundError", "ValueError", "JSONDecodeError"}
  \/ IsInstance(cls, "HTTPError")

\* C29: a call of extract_text or extract_metadata that was answered 2xx
\* with a body that is well-formed JSON either returns a value or fails
\* with an error of one of the five kinds of the taxonomy.
C29_EveryFailureIsInTheTaxonomy ==
  ( /\ ToolCallAnswered2xx
    /\ json_loads(last.resp.body).ok
    /\ last.out.kind = "raise" )
  => InTaxonomy(last.out.exc)

----------------------------------------------------------------------------
(* Properties of PDFAnalyzerHTTP (checked under SpecAnalyzer).             *)

\* The step ends the method of the analyzer that task t is in, or is a
\* call of one that ends at once.
JobEnded(t) ==
  /\ analyzer'.job[t] # analyzer.job[t]
  /\ analyzer'.job[t].at = "idle"

\* C22: with use_agent_for_summary false, summarize_pdf ends as the
\* extract_text call it made ends, with the same returned value or the
\* same error, and agent.run is never called.
C22_SummaryWithoutAgentIsTheText ==
  /\ [](\A t \in Tasks :
          LET job == analyzer.job[t] IN
            (~analyzer.use_agent /\ job.op = "summarize_pdf")
            => /\ job.runs = 0 /\ job.prompt = <<>>
               /\ job.at \in {"idle", "extract_text"}
               /\ job.at = "idle" => job.out = job.text /\ job.out # NoOutcome)
  /\ [][\A t \in Tasks :
          ( /\ JobEnded(t)
            /\ ~analyzer.use_agent
            /\ analyzer'.job[t].op = "summarize_pdf" )
          => /\ last'.op = "extract_text"
             /\ last'.path = analyzer'.job[t].path
             /\ analyzer'.job[t].out = last'.out]_vars

\* C22, witness: summarize_pdf without an agent returned the text of the
\* server, and another summarize_pdf ended with the error of its
\* extraction.
C22_RawTextReturned ==
  /\ ~analyzer.use_agent
  /\ analyzer.job[1].op = "summarize_pdf"
  /\ analyzer.job[1].at = "idle"
  /\ analyzer.job[1].out = Return(Str(TwoWords))
  /\ analyzer.job[2].op = "summarize_pdf"
  /\ analyzer.job[2].at = "idle"
  /\ analyzer.job[2].out.exc = "HTTPStatusError"

\* analyze_pdf of task t has ended.
AnalysisEnded(t) ==
  /\ analyzer.job[t].op = "analyze_pdf"
  /\ analyzer.job[t].at = "idle"
  /\ analyzer.job[t].out # NoOutcome

\* The words of a text: the places where a character that is no whitespace
\* starts the text or follows whitespace.
WordStarts(text) ==
  {i \in 1..Len(text) : ~IsSpace(text[i]) /\ (i = 1 \/ IsSpace(text[i - 1]))}

\* C28 as claimed: the two tool calls of an analyze_pdf carry consecutive
\* request ids.
C28_AnalysisIdsAreConsecutive ==
  \A t \in Tasks :
    (analyzer.job[t].op = "analyze_pdf" /\ Len(analyzer.job[t].ids) = 2)
    => analyzer.job[t].ids[2] = analyzer.job[t].ids[1] + 1

\* C28, amended: analyze_pdf extracts the text, then the metadata, then
\* runs the agent once if one is configured.  The id of extract_metadata is
\* greater than that of extract_text, and the next one when no other task
\* uses the analyzer.  An error of either extraction ends the analysis
\* with that error and without a run of the agent, and so does the
\* TypeError of len(text) for a text that is null.  The mapping returned
\* holds text, metadata, text_length = len(text) and word_count =
\* len(text.split()), and summary exactly when the agent is in use.
C28_AnalysisRunsInOrder ==
  \A t \in Tasks :
    LET job == analyzer.job[t] IN
      job.op = "analyze_pdf"
      => /\ Len(job.ids) <= 2
         /\ Len(job.ids) = 2
              => /\ job.ids[2] > job.ids[1]
                 /\ job.text.kind = "return"
                 /\ (\A u \in Tasks \ {t} : analyzer.job[u].op = "")
                      => job.ids[2] = job.ids[1] + 1
         /\ job.at = "extract_metadata" => job.text.kind = "return"
         /\ job.runs <= 1
         /\ job.runs = 1
              <=> /\ UsesAgent(analyzer)
                  /\ job.text.kind = "return"
                  /\ job.text.value.k = "str"
                  /\ job.metadata.kind = "return"
         /\ (AnalysisEnded(t) /\ job.text.kind = "raise")
              => job.out = job.text /\ job.runs = 0 /\ Len(job.ids) <= 1
         /\ (AnalysisEnded(t) /\ job.metadata.kind = "raise")
              => job.out = job.metadata /\ job.runs = 0
         /\ ( /\ AnalysisEnded(t)
              /\ job.text = Return(None) /\ job.metadata.kind = "return" )
              => job.out.exc = "TypeError" /\ job.runs = 0
         /\ (AnalysisEnded(t) /\ job.out.kind = "return")
              => LET result == job.out.value IN
                   /\ Lookup(result, Key("text")) = job.text.value
                   /\ Lookup(result, Key("metadata")) = job.metadata.value
                   /\ Lookup(result, Key("text_length"))
                        = Num(Len(job.text.value.s))
                   /\ Lookup(result, Key("word_count"))
                        = Num(Cardinality(WordStarts(job.text.value.s)))
                   /\ HasKey(result, Key("summary")) <=> analyzer.use_agent
                   /\ Len(result.m) = IF analyzer.use_agent THEN 5 ELSE 4
                   /\ job.text.value = Str(TwoWords)
                        => /\ Lookup(result, Key("text_length")) = Num(5)
                           /\ Lookup(result, Key("word_count")) = Num(2)

\* C28, witness: with an agent, analyze_pdf of task 1 returned the mapping
\* with the summary of its one agent run, and its two tool calls had the
\* ids 1 and 3, task 2 having made a call between them.
C28_AnalysisWithACallBetween ==
  /\ analyzer.use_agent
  /\ AnalysisEnded(1)
  /\ analyzer.job[1].ids = <<1, 3>>
  /\ analyzer.job[1].runs = 1
  /\ analyzer.job[1].out.kind = "return"
  /\ Lookup(analyzer.job[1].out.value, Key("summary")) = TextOf("A summary.")
  /\ Lookup(analyzer.job[1].out.value, Key("word_count")) = Num(2)


\* The call task t is in has ended at this step.
CallEnds(t) == pc[t] # "idle" /\ pc'[t] = "idle"

\* C30: a call of extract_text, extract_metadata or health_check issues at
\* most one request; it ends with one outcome, a returned value or a raised
\* error; once suspended it does not go on before the response or the
\* transport failure of its request has arrived, and then ends with the
\* outcome of what arrived; and, the network delivering a response or a
\* failure for every request, every call that was started ends.
C30_EveryCallCompletes ==
  /\ [](/\ \A i, j \in 1..Len(posts) : posts[i].n = posts[j].n => i = j
        /\ \A i, j \in 1..Len(gets) : gets[i].n = gets[j].n => i = j
        /\ \A i \in 1..Len(posts), j \in 1..Len(gets) : posts[i].n # gets[j].n)
  /\ [][\A t \in Tasks :
          /\ (pc[t] = "awaiting" /\ pc'[t] # "awaiting")
               => /\ inbox[call[t].n] # NoResponse
                  /\ CallEnds(t)
                  /\ last'.resp = inbox[call[t].n]
          /\ CallEnds(t)
               => /\ call'[t] = NoCall
                  /\ last'.op = call[t].op
                  /\ last'.out.kind \in {"return", "raise"}
                  /\ \A u \in Tasks \ {t} : ~CallEnds(u)]_vars
  /\ \A t \in LiveTasks : (pc[t] # "idle") ~> (pc[t] = "idle")

\* C30, witness: the connection of one call failed and the call has ended
\* with that failure, while another call is still suspended in the await of
\* its own request.
C30_EndedWhileAnotherWaits ==
  /\ last.op = "extract_text"
  /\ last.resp = HttpFailure("ConnectError")
  /\ last.out.kind = "raise"
  /\ \E n \in 1..MaxCalls : inbox[n] = last.resp
  /\ \E t \in Tasks : Suspended(t)
=============================================================================
